---- MODULE Spec2Model ----
(***************************************************************************)
(* Model of measureEccentricity/eccDefinition.py (class eccDefinition).    *)
(*                                                                         *)
(* Conventions                                                             *)
(*  - Arrays are sequences; indices are 1-based (python index + 1).        *)
(*  - Times are integers: the time array is a uniform grid of step 1.      *)
(*  - phase22 is counted in units of pi/2, so one orbit (4 pi of the       *)
(*    (2,2) phase) is PhasePerOrbit = 8 units.                             *)
(*  - Angular frequencies are integers in units of (pi/2)/OmegaScale per   *)
(*    unit time, so that the gradient, the piecewise-linear interpolation  *)
(*    between extrema and the averages are computed exactly.  A reference  *)
(*    frequency f is represented by 2 pi f in the same unit.               *)
(*  - A mean anomaly is the pair <<n, d>> standing for 2 pi n / d.         *)
(*  - An exception raised by the code itself is an outcome of kind         *)
(*    "error"; an exception raised from inside numpy/scipy (IndexError,    *)
(*    the spline constructor or evaluator, a missing attribute) is an      *)
(*    outcome of kind "crash".                                             *)
(***************************************************************************)
EXTENDS Integers, Sequences, FiniteSets, TLC

(***************************** bounds **************************************)
\* number of candidate extremum positions in the waveform
NumSlots == 6
\* longest tref_in enumerated element by element
MaxTrefLen == 2
\* longest fref_in enumerated element by element
MaxFrefLen == 2

(*************************** program constants *****************************)
PhasePerOrbit == 8
\* orbital phase, phase22 / 2, keeps the number phase22 has: its unit is then
\* pi/4, and pi is 4 (min_orb_phase_diff)
OrbPhasePi == 4
\* samples kept before the start of the NR waveform (load_data.py)
TruncationMargin == 10
\* resolution of the square roots and of the eccentricity
SqrtScale == 256
EccScale == 256
DefaultK == 3
DefaultNumOrbits == 1
SplineExtRaise == 2

(***************************** helpers *************************************)
Abs(x) == IF x < 0 THEN 0 - x ELSE x
Min2(a, b) == IF a <= b THEN a ELSE b
Max2(a, b) == IF a >= b THEN a ELSE b
Last(s) == s[Len(s)]

\* the value of an expression computed once: the one element of a singleton
Only(S) == CHOOSE x \in S : TRUE

RECURSIVE Gcd(_, _)
Gcd(a, b) == IF b = 0 THEN a ELSE Gcd(b, a % b)

RECURSIVE LcmUpTo(_)
LcmUpTo(n) == IF n <= 1 THEN 1 ELSE LET l == LcmUpTo(n - 1) IN (l * n) \div Gcd(l, n)

\* s[idx] for an index array idx (numpy fancy indexing)
At(s, idx) == [i \in 1..Len(idx) |-> s[idx[i]]]

\* np.diff
Diff(s) == [i \in 1..(Len(s) - 1) |-> s[i + 1] - s[i]]

StrictlyIncreasing(s) == \A i \in 1..(Len(s) - 1) : s[i] < s[i + 1]

\* np.argmin(np.abs(s - target)): the first index of a minimal element
RECURSIVE ArgMinAbsFrom(_, _, _, _)
ArgMinAbsFrom(s, target, i, best) ==
  IF i > Len(s) THEN best
  ELSE Only({ ArgMinAbsFrom(s, target, i + 1, nearer) :
                nearer \in {IF Abs(s[i] - target) < Abs(s[best] - target)
                            THEN i ELSE best} })

ArgMinAbs(s, target) == ArgMinAbsFrom(s, target, 2, 1)

\* np.argmax: the first index of a maximal element
ArgMax(s) ==
  CHOOSE i \in 1..Len(s) :
    /\ \A j \in 1..Len(s) : s[i] >= s[j]
    /\ \A j \in 1..(i - 1) : s[j] < s[i]

\* the increasing sequence of the elements of a set of integers
RECURSIVE SetToSeq(_)
SetToSeq(S) ==
  IF S = {} THEN << >>
  ELSE LET lo == CHOOSE x \in S : \A y \in S : x <= y
       IN << lo >> \o SetToSeq(S \ {lo})

\* np.arange(start, stop, step) for step > 0
Arange(start, stop, step) ==
  IF stop <= start THEN << >>
  ELSE [i \in 1..(((stop - start - 1) \div step) + 1) |-> start + (i - 1) * step]

(**************************** waveform data ********************************)
NumSamples == 2 * NumSlots + 1
\* sample (1-based) at which the amplitude of the (2,2) mode peaks
MergerSample == 2 * NumSlots
\* sample of the s-th candidate extremum
SlotSample(s) == 2 * s

\* all frequencies are multiples of 1/OmegaScale
OmegaScale == 16 * LcmUpTo((NumSlots \div 2) + 1)

PhaseProfiles == {"chirp", "flat"}

\* increment of phase22 between samples j and j+1
PhaseStep(profile, j) ==
  IF profile = "circular" THEN 2 + ((j - 1) \div 4)
  ELSE (IF (j % 4) \in {1, 2} THEN 3 ELSE 1)
       + (IF profile = "chirp" THEN (j - 1) \div 4 ELSE 0)

RECURSIVE PhaseAt(_, _)
PhaseAt(profile, i) ==
  IF i <= 1 THEN 0 ELSE PhaseAt(profile, i - 1) + PhaseStep(profile, i - 1)

\* a waveform: t, and the (2,2) mode in polar form (amplitude and minus the
\* unwrapped argument); the amplitude peaks at sample peak
Waveform(profile, n, peak) ==
  [ t     |-> [i \in 1..n |-> i - 1],
    amp   |-> [i \in 1..n |-> n - Abs(i - peak)],
    phase |-> [i \in 1..n |-> PhaseAt(profile, i)] ]

NoWaveform == [ t |-> << >>, amp |-> << >>, phase |-> << >> ]

\* the zero-eccentricity counterparts tried: none, one starting together with
\* the eccentric waveform, one starting earlier, one starting later
ZeroEccChoices == {"absent", "same_start", "earlier", "later"}

ZeroEccWaveform(choice) ==
  IF choice = "same_start" THEN Waveform("circular", NumSamples, MergerSample)
  ELSE IF choice = "earlier"
       THEN Waveform("circular", NumSamples + 1, MergerSample + 1)
       ELSE Waveform("circular", NumSamples - 1, MergerSample - 1)

\* the input record {"t", "hlm", "t_zeroecc", "hlm_zeroecc"}: hlm and
\* hlm_zeroecc hold the (2,2) mode and the amplitudes of the other modes
\* supplied, none here
DataDictOf(profile, choice) ==
  [ t   |-> Waveform(profile, NumSamples, MergerSample).t,
    h22 |-> Waveform(profile, NumSamples, MergerSample),
    other_modes |-> << >>,
    has_zeroecc |-> (choice # "absent"),
    t_zeroecc   |-> IF choice = "absent" THEN << >> ELSE ZeroEccWaveform(choice).t,
    h22_zeroecc |-> IF choice = "absent" THEN NoWaveform ELSE ZeroEccWaveform(choice),
    other_modes_zeroecc |-> << >> ]

\* the amplitude of a (3,3) mode that peaks four samples before the (2,2)
\* mode does, and higher
Mode33Amp ==
  [i \in 1..NumSamples |->
     IF i = MergerSample - 5 THEN 6 ELSE IF i = MergerSample - 4 THEN 40 ELSE 0]

\* input records with a (3,3) mode besides the (2,2) mode, in the eccentric
\* waveform and in both waveforms
MultiModeRecords ==
  { [DataDictOf("chirp", "absent") EXCEPT !.other_modes = << Mode33Amp >>],
    [DataDictOf("chirp", "same_start") EXCEPT
        !.other_modes = << Mode33Amp >>,
        !.other_modes_zeroecc = << Mode33Amp >>] }

\* get_peak_via_quadratic_fit(t, amp)[0]: the abscissa of the vertex of the
\* parabola through the three samples around the maximum
get_peak_via_quadratic_fit(tt, amp) ==
  LET i == ArgMax(amp) IN
  IF i = 1 \/ i = Len(amp) THEN tt[i]
  ELSE LET num == (tt[i + 1] - tt[i - 1]) * (amp[i - 1] - amp[i + 1])
           den == 4 * (amp[i - 1] - 2 * amp[i] + amp[i + 1])
       IN tt[i] + (num \div den)

\* np.gradient(phase22, t), times OmegaScale
Gradient(p, tt) ==
  [i \in 1..Len(p) |->
     IF i = 1 THEN ((p[2] - p[1]) * OmegaScale) \div (tt[2] - tt[1])
     ELSE IF i = Len(p)
          THEN ((p[i] - p[i - 1]) * OmegaScale) \div (tt[i] - tt[i - 1])
          ELSE ((p[i + 1] - p[i - 1]) * OmegaScale) \div (tt[i + 1] - tt[i - 1])]

\* what find_extrema of the concrete subclass returns for each type:
\* peaks at a subset of the odd slots, troughs at a subset of the even slots
FoundAt(D) ==
  [ maxima |-> SetToSeq({SlotSample(s) : s \in {x \in D : x % 2 = 1}}),
    minima |-> SetToSeq({SlotSample(s) : s \in {x \in D : x % 2 = 0}}) ]

\* every detection pattern
FoundExtrema == { FoundAt(D) : D \in SUBSET (1..NumSlots) }

\* the patterns where the first j candidates are detected
PrefixExtrema == { FoundAt(1..j) : j \in 0..NumSlots }

\* detections with a spurious maximum: one right after the first periastron,
\* two maxima two samples apart between distant minima, and maxima and
\* minima whose interpolants cross
SpuriousExtrema ==
  { [ maxima |-> << SlotSample(1), SlotSample(1) + 1, SlotSample(3), SlotSample(5) >>,
      minima |-> << SlotSample(2), SlotSample(4), SlotSample(6) >> ],
    [ maxima |-> << SlotSample(1) + 1, SlotSample(2) + 1 >>,
      minima |-> << SlotSample(1), SlotSample(4) >> ],
    [ maxima |-> << SlotSample(1) + 1, SlotSample(4) + 1 >>,
      minima |-> << SlotSample(1), SlotSample(4) >> ] }

(**************************** configuration ********************************)
None == [none |-> TRUE, v |-> 0]
Some(n) == [none |-> FALSE, v |-> n]

AveragingMethods ==
  {"average_between_extrema", "orbital_average_at_extrema", "omega22_zeroecc"}

\* the mutation of get_default_spline_kwargs that leaves check_finite out
get_default_spline_kwargs_without_check_finite ==
  [ w |-> None, bbox |-> << None, None >>, k |-> DefaultK, ext |-> SplineExtRaise ]

get_default_spline_kwargs ==
  [ w |-> None, bbox |-> << None, None >>, k |-> DefaultK, ext |-> SplineExtRaise,
    check_finite |-> FALSE ]

get_default_extra_kwargs ==
  [ num_orbits_to_exclude_before_merger |-> Some(DefaultNumOrbits),
    extrema_finding_kwargs |-> << >>,
    debug |-> TRUE,
    omega22_averaging_method |-> "average_between_extrema" ]

\* a dictionary of options without any key; None is treated like it
NoKwargs == [key \in {} |-> 0]

\* utils.check_kwargs_and_set_defaults: a key that is not a key of the
\* defaults is rejected, a key of the defaults that is not given is added
UnknownKeys(user_kwargs, default_kwargs) ==
  (DOMAIN user_kwargs) \ (DOMAIN default_kwargs)

check_kwargs_and_set_defaults(user_kwargs, default_kwargs) ==
  [ key \in DOMAIN default_kwargs |->
      IF key \in DOMAIN user_kwargs THEN user_kwargs[key] ELSE default_kwargs[key] ]

\* the option dictionaries tried: spline degree 1 or the default, and at
\* most one extra option away from its default
WithNumOrbits(n) ==
  [get_default_extra_kwargs EXCEPT !.num_orbits_to_exclude_before_merger = n]

WithMethod(meth) ==
  [get_default_extra_kwargs EXCEPT !.omega22_averaging_method = meth]

NumOrbitsChoices == {None, Some(0 - 1), Some(0), Some(DefaultNumOrbits)}

Linear == [k |-> 1, ext |-> SplineExtRaise]

\* the spline and exclusion settings tried besides the baseline: every
\* exclusion setting with degree 1, and the default degree with the default
\* exclusion and with none
TrimVariants ==
  { << DataDictOf("chirp", "absent"), Linear, WithNumOrbits(n) >> :
      n \in NumOrbitsChoices }
  \cup { << DataDictOf("chirp", "absent"), get_default_spline_kwargs,
           WithNumOrbits(n) >> : n \in {None, Some(DefaultNumOrbits)} }

\* every averaging method and an unknown one on both phase profiles, and
\* every zero-eccentricity counterpart
MethodVariants ==
  { << DataDictOf(p, "absent"), Linear,
       [WithMethod(meth) EXCEPT !.num_orbits_to_exclude_before_merger = None] >> :
      p \in PhaseProfiles, meth \in AveragingMethods \cup {"no_such_method"} }
  \cup { << DataDictOf("chirp", c), Linear,
           [WithMethod("omega22_zeroecc") EXCEPT
               !.num_orbits_to_exclude_before_merger = None] >> :
      c \in ZeroEccChoices \ {"absent"} }
  \cup { << DataDictOf("chirp", "later"), Linear, WithNumOrbits(Some(0 - 1)) >> }

\* the patterns where all candidates, or all but the last, are detected
LongExtrema == { FoundAt(1..j) : j \in (NumSlots - 1)..NumSlots }

\* option dictionaries that give no key, one key, or a key that does not exist
KwargsVariants ==
  { << DataDictOf("chirp", "absent"), skw, ekw >> :
      skw \in { NoKwargs, [k |-> 1], [k |-> 1, s |-> 0] },
      ekw \in { NoKwargs, [debug |-> FALSE],
                [num_orbits_to_exclude_before_merger |-> None, verbose |-> TRUE] } }

\* records with several modes, with degree 1, no exclusion and the frequency
\* of the zero-eccentricity waveform as average
MultiModeVariants ==
  { << dd, Linear,
       [WithMethod("omega22_zeroecc") EXCEPT
           !.num_orbits_to_exclude_before_merger = None] >> :
      dd \in MultiModeRecords }

\* every periastron detected and every apastron detected one sample late
LateTroughs ==
  [ maxima |-> SetToSeq({SlotSample(s) : s \in {x \in 1..NumSlots : x % 2 = 1}}),
    minima |-> SetToSeq({SlotSample(s) + 1 : s \in {x \in 1..NumSlots : x % 2 = 0}}) ]

\* the constructor arguments tried, with what find_extrema will return:
\* every detection pattern on the baseline (degree 1, no exclusion, default
\* averaging), the prefix patterns on the trimming variants and the long
\* patterns on the method variants and on the records with several modes,
\* and the late apastrons with the orbit averages at the extrema
ConstructArgs ==
  { << DataDictOf("chirp", "absent"), f, Linear, WithNumOrbits(None) >> :
      f \in FoundExtrema \cup SpuriousExtrema }
  \cup { << c[1], f, c[2], c[3] >> : c \in TrimVariants, f \in PrefixExtrema }
  \cup { << c[1], f, c[2], c[3] >> : c \in MethodVariants, f \in LongExtrema }
  \cup { << c[1], f, c[2], c[3] >> : c \in MultiModeVariants, f \in LongExtrema }
  \cup { << DataDictOf("chirp", "absent"), LateTroughs, Linear,
           [WithMethod("orbital_average_at_extrema") EXCEPT
               !.num_orbits_to_exclude_before_merger = None] >> }
  \cup { << c[1], FoundAt(1..NumSlots), c[2], c[3] >> : c \in KwargsVariants }

(******************************* load_data *********************************)
\* load_data.py, get_zeroecc_dataDict_for_lvcnr.  Momega0, the starting
\* frequency, is a whole number of units, and a waveform is the record
\* load_waveform returns: t with the merger at 0, and the (2,2) mode.

\* the NR waveform the zero-eccentricity counterpart is generated for
nr_dataDict ==
  [ t   |-> [i \in 1..NumSamples |-> i - MergerSample],
    hlm |-> Waveform("chirp", NumSamples, MergerSample) ]

\* number of samples from the start of the NR waveform to its merger
NRInspiral == MergerSample - 1

\* the inspiral of the circular waveform generated from Momega0: it is longer
\* the lower the starting frequency, four NR inspirals at one unit
ZeroEccInspiral(Momega0) == (4 * NRInspiral) \div Momega0

\* load_waveform(**zero_ecc_kwargs)
load_waveform(Momega0) ==
  [ t   |-> [i \in 1..(ZeroEccInspiral(Momega0) + 2) |->
               i - 1 - ZeroEccInspiral(Momega0)],
    hlm |-> Waveform("circular", ZeroEccInspiral(Momega0) + 2,
                     ZeroEccInspiral(Momega0) + 1) ]

\* the starting frequencies the estimate of lines 503-506 may come out as
Momega0Estimates == {1, 2, 4, 8, 16}

\* line 524
\* the mutation of the loop condition that also regenerates on an equal start
ZeroEccStartsNotBefore(t_gen, t_nr) == t_gen[1] >= t_nr[1]

ZeroEccTooShort(t_gen, t_nr) == t_gen[1] > t_nr[1]

\* lines 523-528: the waveform is generated again with Momega0 halved while
\* it starts after the NR waveform (one unit is the lowest frequency tried)
RECURSIVE RegenerateWhileTooShort(_, _)
RegenerateWhileTooShort(Momega0, num_tries) ==
  IF ZeroEccTooShort(load_waveform(Momega0).t, nr_dataDict.t) /\ Momega0 > 1
  THEN RegenerateWhileTooShort(Momega0 \div 2, num_tries + 1)
  ELSE [Momega0 |-> Momega0, num_tries |-> num_tries]

\* s[start:] of Python, start counted from 0 and from the end when negative
SliceFrom(s, start) ==
  SubSeq(s,
         (IF start >= 0 THEN Min2(start, Len(s)) ELSE Max2(Len(s) + start, 0)) + 1,
         Len(s))

\* lines 537-538
start_zeroecc_idx(t_gen) ==
  (ArgMinAbs(t_gen, nr_dataDict.t[1]) - 1) - TruncationMargin

\* lines 515-518 and 529-532
LoaderWarnings(Momega0_estimate, num_tries) ==
  (IF 0 - load_waveform(Momega0_estimate).t[1] >= 0 - 2 * nr_dataDict.t[1]
   THEN {"zeroecc_too_long"} ELSE {})
  \cup (IF num_tries >= 2 THEN {"too_many_tries"} ELSE {})

\* lines 533-544, for the outcome final of the loop, the waveform gen
\* generated last and the index idx it is cut at
TruncatedZeroEcc(Momega0_estimate, final, gen, idx) ==
  [ loaded |-> TRUE,
    Momega0_estimate |-> Momega0_estimate,
    Momega0 |-> final.Momega0,
    num_tries |-> final.num_tries,
    warnings |-> LoaderWarnings(Momega0_estimate, final.num_tries),
    t_zeroecc |-> SliceFrom(gen.t, idx),
    hlm_zeroecc |->
      [ t     |-> SliceFrom(gen.t, idx),
        amp   |-> SliceFrom(gen.hlm.amp, idx),
        phase |-> SliceFrom(gen.hlm.phase, idx) ] ]

\* lines 533-544, for the outcome final of the loop
TruncateGenerated(Momega0_estimate, final) ==
  Only({ TruncatedZeroEcc(Momega0_estimate, final, gen, start_zeroecc_idx(gen.t)) :
           gen \in {load_waveform(final.Momega0)} })

get_zeroecc_dataDict_for_lvcnr(Momega0_estimate) ==
  Only({ TruncateGenerated(Momega0_estimate, final) :
           final \in {RegenerateWhileTooShort(Momega0_estimate, 0)} })

NotLoaded ==
  [ loaded |-> FALSE, Momega0_estimate |-> 0, Momega0 |-> 0, num_tries |-> 0,
    warnings |-> {}, t_zeroecc |-> << >>, hlm_zeroecc |-> NoWaveform ]

\* load_lvcnr_waveform, lines 438-459: the NR data with the zero-eccentricity
\* data z added
LoadedDataDict(z) ==
  [ t   |-> nr_dataDict.t,
    h22 |-> [nr_dataDict.hlm EXCEPT !.t = nr_dataDict.t],
    other_modes |-> << >>,
    has_zeroecc |-> TRUE,
    t_zeroecc   |-> z.t_zeroecc,
    h22_zeroecc |-> z.hlm_zeroecc,
    other_modes_zeroecc |-> << >> ]

(******************************* state *************************************)
VARIABLES
  loader,         \* what get_zeroecc_dataDict_for_lvcnr did and returned, if called
  stage,          \* "new", "loaded" (zero-eccentricity data loaded), "ready"
                  \* (constructed) or "failed" (__init__ raised)
  kwargs,         \* the option dictionaries __init__ was called with
  args,           \* their recognized options, completed with the defaults
  init_error,     \* the exception __init__ raised, "" if none
  dataDict,       \* self.dataDict
  found,          \* what find_extrema returns for "maxima" and "minima"
  t,              \* self.t
  phase22,        \* self.phase22
  omega22,        \* self.omega22
  t_zeroecc,      \* self.t_zeroecc
  omega22_zeroecc,\* self.omega22_zeroecc
  spline_kwargs,  \* self.spline_kwargs
  extra_kwargs,   \* self.extra_kwargs
  meas,           \* the fields measure_ecc assigns, and the warnings it issued
  call,           \* arguments of the last measure_ecc call
  ret             \* outcome of the last measure_ecc call

vars == << loader, stage, kwargs, args, init_error, dataDict, found, t, phase22, omega22, t_zeroecc,
           omega22_zeroecc, spline_kwargs, extra_kwargs, meas, call, ret >>

NoMeas ==
  [ peaks_location |-> << >>, troughs_location |-> << >>,
    t_min |-> 0, t_max |-> 0,
    t_for_omega22_average |-> << >>, omega22_average |-> << >>,
    fref_out |-> << >>, tref_out |-> << >>,
    omega22_peak_at_tref_out |-> << >>, omega22_trough_at_tref_out |-> << >>,
    ecc_ref |-> << >>, mean_ano_ref |-> << >>,
    orb_phase_diff_at_peaks |-> << >>, orb_phase_diff_ratio_at_peaks |-> << >>,
    orb_phase_diff_at_troughs |-> << >>, orb_phase_diff_ratio_at_troughs |-> << >>,
    warnings |-> {} ]

\* outcome of a call: kind "ok", "error" (an exception the code raises) or
\* "crash" (an exception from numpy/scipy); line is the source line that
\* raised and arg the extrema type an interp_extrema failure is about;
\* tref_in is the array filtered at line 256
\* the three values returned are ref, ecc and mean_ano; scalar tells which
\* of them are returned as a scalar (element 0) instead of as an array
NoScalar == [ref |-> FALSE, ecc |-> FALSE, mean_ano |-> FALSE]

NoRet == [ kind |-> "none", err |-> "", line |-> 0, arg |-> "", tref_in |-> << >>,
           scalar |-> NoScalar, ref |-> << >>, ecc |-> << >>, mean_ano |-> << >> ]

Init ==
  /\ loader = NotLoaded
  /\ stage = "new"
  /\ kwargs = [spline_kwargs |-> NoKwargs, extra_kwargs |-> NoKwargs]
  /\ args = [spline_kwargs |-> get_default_spline_kwargs,
             extra_kwargs |-> get_default_extra_kwargs]
  /\ init_error = ""
  /\ dataDict = DataDictOf("chirp", "absent")
  /\ found = [maxima |-> << >>, minima |-> << >>]
  /\ t = << >>
  /\ phase22 = << >>
  /\ omega22 = << >>
  /\ t_zeroecc = << >>
  /\ omega22_zeroecc = << >>
  /\ spline_kwargs = get_default_spline_kwargs
  /\ extra_kwargs = get_default_extra_kwargs
  /\ meas = NoMeas
  /\ call = [tref_in |-> [given |-> FALSE, val |-> << >>],
             fref_in |-> [given |-> FALSE, val |-> << >>]]
  /\ ret = NoRet

(***************************** __init__ ************************************)
Shift(tt, by) == [i \in 1..Len(tt) |-> tt[i] - by]

\* the mutation of the check of lines 76-82 that rejects zero as well
NegativeOrZeroNumOrbits(ekw) ==
  /\ ~ekw.num_orbits_to_exclude_before_merger.none
  /\ ekw.num_orbits_to_exclude_before_merger.v <= 0

\* the check of lines 76-82
NegativeNumOrbits(ekw) ==
  /\ ~ekw.num_orbits_to_exclude_before_merger.none
  /\ ekw.num_orbits_to_exclude_before_merger.v < 0

\* lines 70-75: the options after the defaults are filled in
MergedSplineKwargs(skw) ==
  check_kwargs_and_set_defaults(skw, get_default_spline_kwargs)
MergedExtraKwargs(ekw) ==
  check_kwargs_and_set_defaults(ekw, get_default_extra_kwargs)

\* compute_res_amp_and_omega22: the aligned zero-eccentricity time axis
AlignedZeroEccTime(dd) ==
  Shift(dd.t_zeroecc, get_peak_via_quadratic_fit(dd.t_zeroecc, dd.h22_zeroecc.amp))

AlignedTime(dd) == Shift(dd.t, get_peak_via_quadratic_fit(dd.t, dd.h22.amp))

\* line 438
\* the mutation of the data-length check that also rejects an equal start
ZeroEccStartsAtOrAfter(tz, tt) == tz[1] >= tt[1]

ZeroEccStartsLater(tz, tt) == tz[1] > tt[1]

\* the exception __init__ raises for these arguments, "" if none
InitError(dd, skw, ekw) ==
  IF dd.has_zeroecc /\ ZeroEccStartsLater(AlignedZeroEccTime(dd), AlignedTime(dd))
  THEN "zeroecc_too_short"
  ELSE IF UnknownKeys(skw, get_default_spline_kwargs) # {}
  THEN "unknown_kwarg"
  ELSE IF UnknownKeys(ekw, get_default_extra_kwargs) # {}
  THEN "unknown_kwarg"
  ELSE IF NegativeNumOrbits(MergedExtraKwargs(ekw)) THEN "negative_num_orbits"
  ELSE ""

\* the mutation of line 61 that shifts the time array in place: self.t is
\* the array of the record, which is shifted with it
dataDict_shifted_in_place(dd) == [dd EXCEPT !.t = AlignedTime(dd)]

\* lines 52-64, 427-432: self.dataDict is the record passed in; self.t and
\* self.t_zeroecc are bound to new arrays (self.t - peak), so that the arrays
\* of the record are left as they were
dataDict_after_init(dd) == dd

Construct(dd, fnd, skw, ekw) ==
  /\ stage \in {"new", "loaded"}
  /\ dataDict' = dataDict_after_init(dd)
  /\ kwargs' = [spline_kwargs |-> skw, extra_kwargs |-> ekw]
  /\ args' = [spline_kwargs |-> MergedSplineKwargs(skw),
              extra_kwargs |-> MergedExtraKwargs(ekw)]
  /\ init_error' = InitError(dd, skw, ekw)
  /\ IF InitError(dd, skw, ekw) # ""
     THEN /\ stage' = "failed"
          /\ UNCHANGED << found, t, phase22, omega22, t_zeroecc, omega22_zeroecc,
                          spline_kwargs, extra_kwargs >>
     ELSE /\ stage' = "ready"
          /\ found' = fnd
          /\ t' = AlignedTime(dd)
          /\ phase22' = dd.h22.phase
          /\ omega22' = Gradient(dd.h22.phase, AlignedTime(dd))
          /\ t_zeroecc' = IF dd.has_zeroecc THEN AlignedZeroEccTime(dd) ELSE << >>
          /\ omega22_zeroecc' =
               IF dd.has_zeroecc
               THEN Gradient(dd.h22_zeroecc.phase, AlignedZeroEccTime(dd))
               ELSE << >>
          /\ spline_kwargs' = MergedSplineKwargs(skw)
          /\ extra_kwargs' = MergedExtraKwargs(ekw)
  /\ UNCHANGED << loader, meas, call, ret >>

\* load_lvcnr_waveform with include_zero_ecc, for the estimate of the
\* starting frequency
LoadZeroEcc(Momega0_estimate) ==
  /\ stage = "new"
  /\ stage' = "loaded"
  /\ loader' = get_zeroecc_dataDict_for_lvcnr(Momega0_estimate)
  /\ UNCHANGED << kwargs, args, init_error, dataDict, found, t, phase22, omega22,
                  t_zeroecc, omega22_zeroecc, spline_kwargs, extra_kwargs, meas,
                  call, ret >>

(************************ InterpolatedUnivariateSpline *********************)
\* The exception the scipy constructor raises for abscissae x and degree k:
\* it needs strictly increasing abscissae and more than k points.
SplineBuildError(x, k) ==
  IF ~StrictlyIncreasing(x) THEN "spline_x_not_increasing"
  ELSE IF Len(x) <= k THEN "spline_too_few_points"
  ELSE ""

MakeSpline(x, y, k, ext) == [x |-> x, y |-> y, k |-> k, ext |-> ext]

NoSpline == MakeSpline(<< >>, << >>, DefaultK, 0)

InDomain(sp, x0) == sp.x[1] <= x0 /\ x0 <= Last(sp.x)

\* ext = 2: evaluating outside the fit domain raises
SplineEvalError(sp, xs) ==
  IF sp.ext = SplineExtRaise /\ \E i \in 1..Len(xs) : ~InDomain(sp, xs[i])
  THEN "spline_out_of_domain" ELSE ""

\* The value at x0.  The interpolant passes through its knots; between two
\* knots the value is taken on the chord (exact for k = 1, and the integer
\* part of it when the chord value is not an integer).
SplineEval(sp, x0) ==
  LET n == Len(sp.x)
      below == {i \in 1..(n - 1) : sp.x[i] <= x0}
      j == IF below = {} THEN 1 ELSE CHOOSE i \in below : \A l \in below : l <= i
  IN sp.y[j] + (((sp.y[j + 1] - sp.y[j]) * (x0 - sp.x[j])) \div (sp.x[j + 1] - sp.x[j]))

SplineEvalAll(sp, xs) == [i \in 1..Len(xs) |-> SplineEval(sp, xs[i])]

(***************************** interp_extrema ******************************)
find_extrema(extrema_type) == found[extrema_type]

\* lines 136-145: the sample nearest in phase to num_orbits before the merger
idx_num_orbit_earlier_than_merger ==
  LET merger_idx == ArgMinAbs(t, 0)
      phase22_at_merger == phase22[merger_idx]
      phase22_num_orbits_earlier_than_merger ==
        phase22_at_merger
        - PhasePerOrbit * extra_kwargs.num_orbits_to_exclude_before_merger.v
  IN ArgMinAbs(phase22, phase22_num_orbits_earlier_than_merger)

\* the mutation of the trimming that drops the extremum at the cutoff index
KeepExtremumBeforeCutoff(e, cutoff) == e < cutoff

\* lines 149-150: the extrema kept
KeepExtremum(e, cutoff) == e <= cutoff

TrimExtrema(extrema_idx) ==
  IF extra_kwargs.num_orbits_to_exclude_before_merger.none
  THEN extrema_idx
  ELSE LET cutoff == idx_num_orbit_earlier_than_merger
       IN SelectSeq(extrema_idx, LAMBDA e : KeepExtremum(e, cutoff))

\* line 151
EnoughExtrema(n) == n >= 2

\* lines 151-159, for the trimmed extrema_idx
InterpolateExtrema(extrema_idx) ==
  IF ~EnoughExtrema(Len(extrema_idx))
  THEN [ err |-> "insufficient_extrema", line |-> 157, idx |-> extrema_idx,
         spline |-> NoSpline ]
  ELSE IF SplineBuildError(At(t, extrema_idx), spline_kwargs.k) # ""
  THEN [ err |-> SplineBuildError(At(t, extrema_idx), spline_kwargs.k),
         line |-> 152, idx |-> extrema_idx, spline |-> NoSpline ]
  ELSE [ err |-> "", line |-> 0, idx |-> extrema_idx,
         spline |-> MakeSpline(At(t, extrema_idx), At(omega22, extrema_idx),
                               spline_kwargs.k, spline_kwargs.ext) ]

interp_extrema(extrema_type) ==
  Only({ InterpolateExtrema(extrema_idx) :
           extrema_idx \in {TrimExtrema(find_extrema(extrema_type))} })

(*************************** averaging methods *****************************)
Curve(tt, om, e, line) == [t |-> tt, omega |-> om, err |-> e, line |-> line]

\* the mutation of the grid that starts one step before t_min
AveragingGridFromBefore(t_min, t_max) ==
  Arange(t_min - (t[2] - t[1]), t_max, t[2] - t[1])

\* the uniform grid of lines 518 and 524
AveragingGrid(t_min, t_max) == Arange(t_min, t_max, t[2] - t[1])

compute_omega22_average_between_extrema(t_min, t_max, pks, trs) ==
  LET g == AveragingGrid(t_min, t_max) IN
  IF SplineEvalError(pks, g) # "" \/ SplineEvalError(trs, g) # ""
  THEN Curve(<< >>, << >>, "spline_out_of_domain", 519)
  ELSE Curve(g, [i \in 1..Len(g) |->
                  (SplineEval(pks, g[i]) + SplineEval(trs, g[i])) \div 2], "", 0)

\* np.interp: linear interpolation, constant beyond the ends
NpInterp(x0, xs, ys) ==
  IF x0 <= xs[1] THEN ys[1]
  ELSE IF x0 >= Last(xs) THEN Last(ys)
  ELSE SplineEval(MakeSpline(xs, ys, 1, 0), x0)

compute_omega22_zeroecc(t_min, t_max) ==
  LET g == AveragingGrid(t_min, t_max) IN
  IF ~dataDict.has_zeroecc
  THEN Curve(<< >>, << >>, "attribute_error", 525)
  ELSE Curve(g, [i \in 1..Len(g) |-> NpInterp(g[i], t_zeroecc, omega22_zeroecc)],
             "", 0)

\* lines 478-482: phase difference over time difference of extrema n, n+1
orbital_averaged_omega22_at_extrema(loc, n) ==
  ((phase22[loc[n + 1]] - phase22[loc[n]]) * OmegaScale)
    \div (t[loc[n + 1]] - t[loc[n]])

\* the mutation of the time stamp that takes the first extremum of each pair
StartPoints(loc) == [n \in 1..(Len(loc) - 1) |-> t[loc[n]]]

\* lines 484-485, 489-490: the midpoints of consecutive extrema
MidPoints(loc) ==
  [n \in 1..(Len(loc) - 1) |-> (t[loc[n + 1]] + t[loc[n]]) \div 2]

\* np.argsort (ties keep their order)
ArgSort(s) ==
  LET Before(i, j) == s[i] < s[j] \/ (s[i] = s[j] /\ i < j)
      Rank(i) == Cardinality({j \in 1..Len(s) : Before(j, i)}) + 1
  IN [r \in 1..Len(s) |-> CHOOSE i \in 1..Len(s) : Rank(i) = r]

\* lines 499, 502
\* the mutation of the test that lets equal consecutive values pass
HasDecrease(s) == \E i \in 1..(Len(s) - 1) : s[i + 1] - s[i] < 0

NotStrictlyIncreasing(s) == \E i \in 1..(Len(s) - 1) : s[i + 1] - s[i] <= 0

compute_orbital_averaged_omega22_at_extrema(peaks_location, troughs_location) ==
  LET t_average_peaks == MidPoints(peaks_location)
      omega22_average_peaks ==
        [n \in 1..(Len(peaks_location) - 1) |->
           orbital_averaged_omega22_at_extrema(peaks_location, n)]
      t_average_troughs == MidPoints(troughs_location)
      omega22_average_troughs ==
        [n \in 1..(Len(troughs_location) - 1) |->
           orbital_averaged_omega22_at_extrema(troughs_location, n)]
      t_average == t_average_troughs \o t_average_peaks
      sorted_idx == ArgSort(t_average)
      omega22_average == omega22_average_troughs \o omega22_average_peaks
  IN IF NotStrictlyIncreasing(omega22_average_peaks)
     THEN Curve(<< >>, << >>, "nonmonotonic_average", 500)
     ELSE IF NotStrictlyIncreasing(omega22_average_troughs)
     THEN Curve(<< >>, << >>, "nonmonotonic_average", 503)
     ELSE Curve(At(t_average, sorted_idx), At(omega22_average, sorted_idx), "", 0)

\* get_availabe_omega22_averaging_methods and the dispatch of line 569
RunAveragingMethod(method, st, pks, trs) ==
  IF method = "average_between_extrema"
  THEN compute_omega22_average_between_extrema(st.t_min, st.t_max, pks, trs)
  ELSE IF method = "orbital_average_at_extrema"
       THEN compute_orbital_averaged_omega22_at_extrema(st.peaks_location,
                                                        st.troughs_location)
       ELSE compute_omega22_zeroecc(st.t_min, st.t_max)

\* warnings.warn: the warning w is issued when cond holds
WarnIf(st, cond, w) ==
  IF cond THEN [st EXCEPT !.warnings = @ \cup {w}] ELSE st

(******************************* get_fref_out ******************************)
\* lines 597-598
InFrefRange(f, lo, hi) == f >= lo /\ f < hi

\* the exception raised when nothing survives, lines 599-611
FrefEmptyError(fref_in, lo, hi) ==
  IF Len(fref_in) = 0 THEN "index_error"
  ELSE IF fref_in[1] < lo THEN "fref_below_minimum"
  ELSE IF Last(fref_in) > hi THEN "fref_above_maximum"
  ELSE "fref_out_empty"

FrefEmptyLine(e) ==
  IF e = "index_error" THEN 600
  ELSE IF e = "fref_below_minimum" THEN 601
  ELSE IF e = "fref_above_maximum" THEN 605 ELSE 609

get_fref_out(fref_in, omega22_average) ==
  IF Len(omega22_average) = 0
  THEN [err |-> "index_error", line |-> 597, fref_out |-> << >>]
  ELSE LET lo == omega22_average[1]
           hi == Last(omega22_average)
           fref_out == SelectSeq(fref_in, LAMBDA f : InFrefRange(f, lo, hi))
       IN IF Len(fref_out) = 0
          THEN [err |-> FrefEmptyError(fref_in, lo, hi),
                line |-> FrefEmptyLine(FrefEmptyError(fref_in, lo, hi)),
                fref_out |-> << >>]
          ELSE [err |-> "", line |-> 0, fref_out |-> fref_out]

(************** compute_tref_in_and_fref_out_from_fref_in ******************)
\* line 568
MethodAvailable(method) == method \in AveragingMethods

ConversionError(st, e, line) ==
  [st |-> st, err |-> e, line |-> line, tref_in |-> << >>, fref_out |-> << >>]

\* lines 575-586, with the averaged frequency c stored in st: fref_out, then
\* tref_in from the spline of t_for_omega22_average against omega22_average
TimesOfFrefOut(st, c, fo) ==
  IF fo.err # "" THEN ConversionError(st, fo.err, fo.line)
  ELSE IF SplineBuildError(c.omega, DefaultK) # ""
  THEN ConversionError(WarnIf(st, NotStrictlyIncreasing(c.omega),
                              "omega22_average_not_monotonic"),
                       SplineBuildError(c.omega, DefaultK), 580)
  ELSE Only({ [ st |-> WarnIf(WarnIf(st, NotStrictlyIncreasing(c.omega),
                                     "omega22_average_not_monotonic"),
                              NotStrictlyIncreasing(tref_in),
                              "tref_in_not_monotonic"),
                err |-> "", line |-> 0,
                tref_in |-> tref_in,
                fref_out |-> fo.fref_out ] :
              tref_in \in {SplineEvalAll(MakeSpline(c.omega, c.t, DefaultK, 0),
                                         fo.fref_out)} })

\* lines 569-586, for the averaged frequency c the method returned
ConvertWithAverage(fref_in, st, c) ==
  IF c.err # "" THEN ConversionError(st, c.err, c.line)
  ELSE Only({ TimesOfFrefOut([st EXCEPT !.t_for_omega22_average = c.t,
                                        !.omega22_average = c.omega], c, fo) :
                fo \in {get_fref_out(fref_in, c.omega)} })

\* returns the fields assigned (st), the error raised if any, and
\* (tref_in, fref_out)
compute_tref_in_and_fref_out_from_fref_in(fref_in, st, pks, trs) ==
  IF ~MethodAvailable(extra_kwargs.omega22_averaging_method)
  THEN ConversionError(st, "unknown_averaging_method", 590)
  ELSE Only({ ConvertWithAverage(fref_in, st, c) :
                c \in {RunAveragingMethod(extra_kwargs.omega22_averaging_method,
                                          st, pks, trs)} })

(******************************* measure_ecc *******************************)
\* exceptions that come from numpy/scipy rather than from a raise statement
CrashNames ==
  { "index_error", "attribute_error", "spline_too_few_points",
    "spline_x_not_increasing", "spline_out_of_domain" }

Raise(st, e, line, arg, tref_in) ==
  [ st  |-> st,
    ret |-> [NoRet EXCEPT !.kind = IF e \in CrashNames THEN "crash" ELSE "error",
                          !.err = e, !.line = line, !.arg = arg,
                          !.tref_in = tref_in] ]

\* an argument of measure_ecc: None, or an array (np.atleast_1d applied)
NoArg == [given |-> FALSE, val |-> << >>]
Arg(v) == [given |-> TRUE, val |-> v]

\* line 237
ExactlyOneGiven(tref_arg, fref_arg) ==
  (IF tref_arg.given THEN 1 ELSE 0) + (IF fref_arg.given THEN 1 ELSE 0) = 1

\* lines 256-257
\* the mutation of the filter that also keeps a time equal to t_max
InRefWindowClosed(x, t_min, t_max) == x <= t_max /\ x >= t_min

InRefWindow(x, t_min, t_max) == x < t_max /\ x >= t_min

\* lines 267-278
TrefEmptyError(tref_in, t_min, t_max) ==
  IF Len(tref_in) = 0 THEN "index_error"
  ELSE IF Last(tref_in) > t_max THEN "tref_later_than_t_max"
  ELSE IF tref_in[1] < t_min THEN "tref_earlier_than_t_min"
  ELSE "tref_out_empty"

\* line 291
\* the mutation of line 291 that also objects to a reference time at the
\* first periastron
NotStrictlyWithinTwoPeaks(tref_out, t_peaks) ==
  tref_out[1] <= t_peaks[1] \/ Last(tref_out) >= Last(t_peaks)

NotWithinTwoPeaks(tref_out, t_peaks) ==
  tref_out[1] < t_peaks[1] \/ Last(tref_out) >= Last(t_peaks)

\* compute_mean_ano, lines 314-320: <<n, d>> is 2 pi n / d; the error is
\* the IndexError of line 314 or 316
MeanAnoError(time, t_peaks) ==
  LET before == {i \in 1..Len(t_peaks) : t_peaks[i] <= time} IN
  IF before = {} THEN "index_error"
  ELSE IF (CHOOSE i \in before : \A j \in before : j <= i) + 1 > Len(t_peaks)
       THEN "index_error" ELSE ""

\* line 314 indexes the last periastron at or before time, line 316 the next
MeanAnoLine(tref_out, t_peaks) ==
  IF \E i \in 1..Len(tref_out) : \A p \in 1..Len(t_peaks) : t_peaks[p] > tref_out[i]
  THEN 314 ELSE 316

\* the mutation of compute_mean_ano that measures from the first periastron
\* at or before time instead of the last one
compute_mean_ano_from_first_peak(time, t_peaks) ==
  LET before == {i \in 1..Len(t_peaks) : t_peaks[i] <= time}
      idx_at_first_peak == CHOOSE i \in before : \A j \in before : i <= j
  IN << time - t_peaks[idx_at_first_peak],
        t_peaks[idx_at_first_peak + 1] - t_peaks[idx_at_first_peak] >>

\* the mutation of compute_mean_ano that takes the last periastron of all as
\* the next one
compute_mean_ano_to_final_peak(time, t_peaks) ==
  LET before == {i \in 1..Len(t_peaks) : t_peaks[i] <= time}
      idx_at_last_peak == CHOOSE i \in before : \A j \in before : j <= i
  IN << time - t_peaks[idx_at_last_peak],
        Last(t_peaks) - t_peaks[idx_at_last_peak] >>

compute_mean_ano(time, t_peaks) ==
  LET before == {i \in 1..Len(t_peaks) : t_peaks[i] <= time}
      idx_at_last_peak == CHOOSE i \in before : \A j \in before : j <= i
      t_at_last_peak == t_peaks[idx_at_last_peak]
      t_at_next_peak == t_peaks[idx_at_last_peak + 1]
      t_since_last_peak == time - t_at_last_peak
      current_period == t_at_next_peak - t_at_last_peak
  IN << t_since_last_peak, current_period >>

\* check_monotonicity_and_convexity: the spline of line 400 through
\* (tref_out, ecc_ref), of the default degree
check_monotonicity_and_convexity(tref_out) == SplineBuildError(tref_out, DefaultK)

TrefEmptyLine(e) ==
  IF e = "index_error" THEN 268
  ELSE IF e = "tref_later_than_t_max" THEN 269
  ELSE IF e = "tref_earlier_than_t_min" THEN 273 ELSE 276

\* lines 331-336: the attributes replaced by their only element
Scalarised(st, fref_given) ==
  [ tref_out     |-> (Len(st.tref_out) = 1),
    ecc_ref      |-> (Len(st.tref_out) = 1),
    mean_ano_ref |-> (Len(st.tref_out) = 1),
    fref_out     |-> (fref_given /\ Len(st.fref_out) = 1) ]

\* line 338
\* the mutation of return_array that returns the reference times whatever
\* the input was
return_array_tref_out(st, fref_given) == st.tref_out

\* the mutation of return_array that looks at the stored fref_out instead of
\* at the argument
return_array_if_fref_out_stored(st, fref_given) ==
  IF Len(st.fref_out) > 0 THEN st.fref_out ELSE st.tref_out

return_array(st, fref_given) == IF fref_given THEN st.fref_out ELSE st.tref_out

\* lines 326-339, with every field assigned (st): the check of the measured
\* eccentricity over several reference times, then the values returned
ReturnEcc(st, tref_in, fref_given) ==
  IF Len(st.tref_out) > 1 /\ check_monotonicity_and_convexity(st.tref_out) # ""
  THEN Raise(st, check_monotonicity_and_convexity(st.tref_out), 400, "", tref_in)
  ELSE [ st  |-> st,
         ret |-> [ kind |-> "ok", err |-> "", line |-> 0, arg |-> "",
                   tref_in |-> tref_in,
                   scalar |->
                     [ ref |-> IF fref_given
                               THEN Scalarised(st, fref_given).fref_out
                               ELSE Scalarised(st, fref_given).tref_out,
                       ecc |-> Scalarised(st, fref_given).ecc_ref,
                       mean_ano |-> Scalarised(st, fref_given).mean_ano_ref ],
                   ref |-> return_array(st, fref_given),
                   ecc |-> st.ecc_ref,
                   mean_ano |-> st.mean_ano_ref ] ]

\* np.sqrt(x) in units of 1/SqrtScale for x >= 0: the largest r with
\* r * r <= y, where y is x * SqrtScale^2, by Newton's iteration downwards
\* from a guess g that is not below it
RECURSIVE SqrtFrom(_, _)
SqrtFrom(y, g) ==
  Only({ IF next < g THEN SqrtFrom(y, next) ELSE g :
           next \in {(g + (y \div g)) \div 2} })

\* (2^15.5, whose square is the largest 32-bit one, is above every root)
Sqrt(x) ==
  IF x = 0 THEN 0
  ELSE SqrtFrom(x * SqrtScale * SqrtScale,
                IF x < 256 THEN 16 * SqrtScale
                ELSE IF x < 1024 THEN 32 * SqrtScale
                ELSE 46340)

\* a float: nan, or v in units of 1/EccScale
NaN == [nan |-> TRUE, v |-> 0]
Float(v) == [nan |-> FALSE, v |-> v]

\* n / d rounded towards zero
Quotient(n, d) == IF n >= 0 THEN n \div d ELSE 0 - ((0 - n) \div d)

\* lines 299-302, for the square roots of the two frequencies
EccOfRoots(sqrt_peak, sqrt_trough) ==
  Float(Quotient(EccScale * (sqrt_peak - sqrt_trough), sqrt_peak + sqrt_trough))

\* the mutation of the formula that leaves the square roots out
ecc_ref_without_sqrt(omega22_peak, omega22_trough) ==
  IF omega22_peak < 0 \/ omega22_trough < 0
       \/ (omega22_peak = 0 /\ omega22_trough = 0)
  THEN NaN
  ELSE EccOfRoots(omega22_peak, omega22_trough)

\* the square root of a negative number is nan, and so is 0 / 0
ecc_ref(omega22_peak, omega22_trough) ==
  IF omega22_peak < 0 \/ omega22_trough < 0
       \/ (omega22_peak = 0 /\ omega22_trough = 0)
  THEN NaN
  ELSE Only({ EccOfRoots(sqrt_peak, sqrt_trough) :
                sqrt_peak \in {Sqrt(omega22_peak)},
                sqrt_trough \in {Sqrt(omega22_trough)} })

\* lines 288-324, with the separation of the extrema checked
EccAtRefOut(pk, tr, st, tref_in, fref_given) ==
  IF NotWithinTwoPeaks(st.tref_out, At(t, pk.idx))
  THEN Raise(st, "not_within_two_peaks", 292, "", tref_in)
  ELSE IF SplineEvalError(pk.spline, st.tref_out) # ""
  THEN Raise(st, "spline_out_of_domain", 297, "", tref_in)
  ELSE IF SplineEvalError(tr.spline, st.tref_out) # ""
  THEN Raise([st EXCEPT !.omega22_peak_at_tref_out =
                           SplineEvalAll(pk.spline, st.tref_out)],
             "spline_out_of_domain", 298, "", tref_in)
  ELSE IF \E i \in 1..Len(st.tref_out) :
            MeanAnoError(st.tref_out[i], At(t, pk.idx)) # ""
  THEN Raise([st EXCEPT
                !.omega22_peak_at_tref_out = SplineEvalAll(pk.spline, st.tref_out),
                !.omega22_trough_at_tref_out = SplineEvalAll(tr.spline, st.tref_out)],
             "index_error", MeanAnoLine(st.tref_out, At(t, pk.idx)), "", tref_in)
  ELSE Only({ ReturnEcc(s5, tref_in, fref_given) :
                s5 \in {[st EXCEPT
                   !.omega22_peak_at_tref_out = SplineEvalAll(pk.spline, st.tref_out),
                   !.omega22_trough_at_tref_out = SplineEvalAll(tr.spline, st.tref_out),
                   !.ecc_ref =
                      [i \in 1..Len(st.tref_out) |->
                         Only({ ecc_ref(omega22_peak, omega22_trough) :
                                  omega22_peak \in
                                    {SplineEval(pk.spline, st.tref_out[i])},
                                  omega22_trough \in
                                    {SplineEval(tr.spline, st.tref_out[i])} })],
                   !.mean_ano_ref =
                      [i \in 1..Len(st.tref_out) |->
                         compute_mean_ano(st.tref_out[i], At(t, pk.idx))]]} })

\* a quotient n / d of two orbital phase differences, as numpy divides
Ratio(n, d) == << n, d >>

\* r > max_orb_phase_diff_factor, which is 1.5 (n / 0 is inf, 0 / 0 is nan)
RatioAboveMaxFactor(r) ==
  IF r[2] > 0 THEN 2 * r[1] > 3 * r[2]
  ELSE IF r[2] < 0 THEN 2 * r[1] < 3 * r[2]
  ELSE r[1] > 0

\* line 364
\* the mutation of line 366 that does not put the 0 in front
orb_phase_diff_ratio_unpadded(orb_phase_diff) ==
  [i \in 1..(Len(orb_phase_diff) - 1) |->
     Ratio(orb_phase_diff[i + 1], orb_phase_diff[i])]

\* lines 364-366
orb_phase_diff_ratio(orb_phase_diff) ==
  << Ratio(0, 1) >>
    \o [i \in 1..(Len(orb_phase_diff) - 1) |->
         Ratio(orb_phase_diff[i + 1], orb_phase_diff[i])]

\* the mutation of lines 346-347 that takes the differences of phase22
\* itself, without halving it
orb_phase_diff_of_phase22(extrema_location) ==
  [i \in 1..(Len(extrema_location) - 1) |->
     2 * (phase22[extrema_location[i + 1]] - phase22[extrema_location[i]])]

\* lines 346-347
orb_phase_diff_at(extrema_location) == Diff(At(phase22, extrema_location))

\* lines 351-375: the warnings about the separation of the extrema
SeparationWarnings(diff, ratio, extrema_type) ==
  (IF \E i \in 1..Len(diff) : diff[i] < OrbPhasePi
   THEN {extrema_type \o "_too_close"} ELSE {})
  \cup (IF \E i \in 1..Len(diff) :
             Abs(diff[i] - OrbPhasePi) < Abs(diff[i] - 2 * OrbPhasePi)
         THEN {"phase_shift_closer_to_pi"} ELSE {})
  \cup (IF \E i \in 1..Len(ratio) : RatioAboveMaxFactor(ratio[i])
         THEN {extrema_type \o "_too_far"} ELSE {})

\* what check_extrema_separation returns, and the warnings it issues
check_extrema_separation(extrema_location, extrema_type) ==
  [ orb_phase_diff |-> orb_phase_diff_at(extrema_location),
    orb_phase_diff_ratio |->
      orb_phase_diff_ratio(orb_phase_diff_at(extrema_location)),
    warnings |->
      SeparationWarnings(orb_phase_diff_at(extrema_location),
                         orb_phase_diff_ratio(orb_phase_diff_at(extrema_location)),
                         extrema_type) ]

\* lines 280-286
WithSeparationChecked(st, at_peaks, at_troughs) ==
  [st EXCEPT !.orb_phase_diff_at_peaks = at_peaks.orb_phase_diff,
             !.orb_phase_diff_ratio_at_peaks = at_peaks.orb_phase_diff_ratio,
             !.orb_phase_diff_at_troughs = at_troughs.orb_phase_diff,
             !.orb_phase_diff_ratio_at_troughs = at_troughs.orb_phase_diff_ratio,
             !.warnings = @ \cup at_peaks.warnings \cup at_troughs.warnings]

\* line 262
\* the mutation of the comparison that objects to a longer tref_out only
FrefOutShorter(fref_out, tref_out) == Len(fref_out) < Len(tref_out)

LengthsDiffer(fref_out, tref_out) == Len(fref_out) # Len(tref_out)

\* lines 259-286, with fref_out and tref_out stored in st
CheckRefOut(pk, tr, st, tref_in, fref_given) ==
  IF fref_given /\ LengthsDiffer(st.fref_out, st.tref_out)
  THEN Raise(st, "length_mismatch", 263, "", tref_in)
  ELSE IF Len(st.tref_out) = 0
  THEN Raise(st, TrefEmptyError(tref_in, st.t_min, st.t_max),
             TrefEmptyLine(TrefEmptyError(tref_in, st.t_min, st.t_max)),
             "", tref_in)
  ELSE Only({ EccAtRefOut(pk, tr, s4, tref_in, fref_given) :
                s4 \in {WithSeparationChecked(
                          st,
                          check_extrema_separation(st.peaks_location, "peaks"),
                          check_extrema_separation(st.troughs_location,
                                                   "troughs"))} })

\* lines 249-257, for the outcome conv of the conversion from fref_in (or
\* tref_in as given)
FilterTrefIn(pk, tr, conv, fref_given) ==
  IF conv.err # "" THEN Raise(conv.st, conv.err, conv.line, "", << >>)
  ELSE Only({ CheckRefOut(pk, tr, s3, conv.tref_in, fref_given) :
                s3 \in {[conv.st EXCEPT
                   !.fref_out = IF fref_given THEN conv.fref_out ELSE @,
                   !.tref_out =
                      SelectSeq(conv.tref_in,
                                LAMBDA x : InRefWindow(x, conv.st.t_min,
                                                       conv.st.t_max))]} })

\* lines 237-247, with the extrema and the valid range stored in st
DispatchOnInput(pk, tr, st, tref_arg, fref_arg) ==
  IF ~ExactlyOneGiven(tref_arg, fref_arg)
  THEN Raise(st, "ambiguous_input", 238, "", << >>)
  ELSE Only({ FilterTrefIn(pk, tr, conv, fref_arg.given) :
                conv \in {IF tref_arg.given
                          THEN [st |-> st, err |-> "", line |-> 0,
                                tref_in |-> tref_arg.val, fref_out |-> << >>]
                          ELSE compute_tref_in_and_fref_out_from_fref_in(
                                 fref_arg.val, st, pk.spline, tr.spline)} })

\* lines 230-235, for the interpolants pk of the maxima and tr of the minima
AfterMaxima(st, pk, tr, tref_arg, fref_arg) ==
  IF tr.err # ""
  THEN Raise([st EXCEPT !.peaks_location = pk.idx], tr.err, tr.line,
             "minima", << >>)
  ELSE Only({ DispatchOnInput(pk, tr, s2, tref_arg, fref_arg) :
                s2 \in {[st EXCEPT
                   !.peaks_location = pk.idx,
                   !.troughs_location = tr.idx,
                   !.t_max = Min2(Last(At(t, pk.idx)), Last(At(t, tr.idx))),
                   !.t_min = Max2(At(t, pk.idx)[1], At(t, tr.idx)[1])]} })

\* lines 229-230, for the interpolant pk of the maxima
InterpolateBoth(st, pk, tref_arg, fref_arg) ==
  IF pk.err # "" THEN Raise(st, pk.err, pk.line, "maxima", << >>)
  ELSE Only({ AfterMaxima(st, pk, tr, tref_arg, fref_arg) :
                tr \in {interp_extrema("minima")} })

\* the whole of measure_ecc called on an object whose attributes are self:
\* the attributes afterwards, the warnings issued and the outcome
measure_ecc_from(self, tref_arg, fref_arg) ==
  Only({ InterpolateBoth([self EXCEPT !.warnings = {}], pk, tref_arg, fref_arg) :
           pk \in {interp_extrema("maxima")} })

measure_ecc(tref_arg, fref_arg) == measure_ecc_from(meas, tref_arg, fref_arg)

MeasureEcc(tref_arg, fref_arg) ==
  /\ stage = "ready"
  /\ \E r \in {measure_ecc(tref_arg, fref_arg)} :
        /\ meas' = r.st
        /\ ret' = r.ret
  /\ call' = [tref_in |-> tref_arg, fref_in |-> fref_arg]
  /\ UNCHANGED << loader, stage, kwargs, args, init_error, dataDict, found, t,
                  phase22, omega22, t_zeroecc, omega22_zeroecc, spline_kwargs,
                  extra_kwargs >>

(******************************* inputs ************************************)
SlotTime(s) == SlotSample(s) - MergerSample

\* reference times enumerated: the time of the second candidate periastron
\* and the merger time
RefTimes == { SlotTime(3), SlotTime(NumSlots) }

SeqsUpTo(S, n) == UNION { [1..l -> S] : l \in 0..n }

Reverse(s) == [i \in 1..Len(s) |-> s[Len(s) + 1 - i]]

\* contiguous stretches of the time grid, ascending and descending
GridInputs ==
  { Arange(SlotTime(2), SlotTime(2) + l, 1) : l \in {3, 4} }
  \cup { Reverse(Arange(SlotTime(2), SlotTime(2) + 3, 1)) }

TrefInputs == SeqsUpTo(RefTimes, MaxTrefLen) \cup GridInputs

RefFreqs == { 2 * OmegaScale, 3 * OmegaScale }

\* rising reference frequencies a quarter of the scale apart: four of them,
\* and two from the lowest orbit average of the chirp on
FrefGridInputs ==
  { [i \in 1..4 |-> (9 + i) * (OmegaScale \div 4)],
    [i \in 1..2 |-> (8 + i) * (OmegaScale \div 4)] }

FrefInputs == SeqsUpTo(RefFreqs, MaxFrefLen) \cup FrefGridInputs

MeasureArgs ==
  { << Arg(x), NoArg >> : x \in TrefInputs }
  \cup { << NoArg, Arg(f) >> : f \in FrefInputs }
  \cup { << NoArg, NoArg >>, << Arg(<< SlotTime(3) >>), Arg(<< 3 * OmegaScale >>) >> }

Next ==
  \/ /\ stage = "new"
     /\ \E c \in ConstructArgs : Construct(c[1], c[2], c[3], c[4])
  \/ \E Momega0_estimate \in Momega0Estimates : LoadZeroEcc(Momega0_estimate)
  \/ /\ stage = "loaded"
     /\ \E f \in LongExtrema :
          Construct(LoadedDataDict(loader), f, Linear,
                    [WithMethod("omega22_zeroecc") EXCEPT
                        !.num_orbits_to_exclude_before_merger = None])
  \/ /\ stage = "ready"
     /\ \E a \in MeasureArgs : MeasureEcc(a[1], a[2])

Spec == Init /\ [][Next]_vars

(***************************** properties **********************************)
\* the source lines of measure_ecc, and of what it calls, that run after the
\* filter of lines 256-257
AfterFilterLines == {263, 268, 269, 273, 276, 292, 297, 298, 314, 316, 400}

\* the last call got past the filter, so tref_out and t_min, t_max are its own
ReachedFilter == ret.kind = "ok" \/ ret.line \in AfterFilterLines

\* the last call returned from interp_extrema("maxima"), and from both calls
PeaksAssigned ==
  ret.kind # "none" /\ ~(ret.line \in {152, 157} /\ ret.arg = "maxima")
TroughsAssigned == ret.kind # "none" /\ ret.line \notin {152, 157}

TrefOnly == call.tref_in.given /\ ~call.fref_in.given
FrefOnly == call.fref_in.given /\ ~call.tref_in.given

TimesOf(loc) == [i \in 1..Len(loc) |-> t[loc[i]]]

\* C1 (as stated): a call given both or neither of tref_in and fref_in ends
\* with the ambiguous-input error, and with no other failure in its place.
\* Refuted: interp_extrema runs first (lines 229-230) and its failure is
\* what such a call reports when too few extrema are found.
C1_AmbiguousInputReported ==
  (ret.kind # "none" /\ call.tref_in.given = call.fref_in.given)
    => (ret.kind = "error" /\ ret.err = "ambiguous_input")

\* C2: t_min is the later of the first periastron and first apastron times,
\* t_max the earlier of the last periastron and last apastron times, and
\* tref_out is the subsequence of tref_in with t_min <= t < t_max, in order.
C2_ValidRange ==
  ReachedFilter =>
    LET t_peaks == TimesOf(meas.peaks_location)
        t_troughs == TimesOf(meas.troughs_location)
    IN /\ meas.t_min = Max2(t_peaks[1], t_troughs[1])
       /\ meas.t_max = Min2(Last(t_peaks), Last(t_troughs))
       /\ meas.tref_out =
            SelectSeq(ret.tref_in, LAMBDA x : meas.t_min <= x /\ x < meas.t_max)

\* a call whose tref_in holds t_min, which is kept, and t_max, which is not
C2_Witness ==
  /\ ReachedFilter
  /\ \E i, j \in 1..Len(ret.tref_in) :
       ret.tref_in[i] = meas.t_min /\ ret.tref_in[j] = meas.t_max
  /\ \E i \in 1..Len(meas.tref_out) : meas.tref_out[i] = meas.t_min
  /\ \A i \in 1..Len(meas.tref_out) : meas.tref_out[i] # meas.t_max

\* C3: every mean anomaly returned, 2*pi*n/d, lies in [0, 2*pi): 0 <= n < d,
\* and it is 0 where the reference time is a periastron time.
C3_MeanAnomalyRange ==
  ret.kind = "ok" =>
    /\ Len(ret.mean_ano) = Len(meas.tref_out)
    /\ \A i \in 1..Len(ret.mean_ano) :
         /\ ret.mean_ano[i][2] > 0
         /\ 0 <= ret.mean_ano[i][1]
         /\ ret.mean_ano[i][1] < ret.mean_ano[i][2]
         /\ (\E p \in 1..Len(meas.peaks_location) :
               t[meas.peaks_location[p]] = meas.tref_out[i])
              => ret.mean_ano[i][1] = 0

\* a result over several reference times, one of them a periastron time
\* other than the first and one of them past the middle of its orbit
C3_Witness ==
  /\ ret.kind = "ok"
  /\ \E i \in 1..Len(ret.mean_ano) :
       /\ ret.mean_ano[i][1] = 0
       /\ \E p \in 2..Len(meas.peaks_location) :
            t[meas.peaks_location[p]] = meas.tref_out[i]
  /\ \E i \in 1..Len(ret.mean_ano) :
       2 * ret.mean_ano[i][1] > ret.mean_ano[i][2]

Bracketed(x, t_peaks) ==
  /\ \E p \in 1..Len(t_peaks) : t_peaks[p] <= x
  /\ \E p \in 1..Len(t_peaks) : t_peaks[p] > x

\* C4: when a call returns, every element of tref_out has a periastron at or
\* before it and a periastron strictly after it; a call whose tref_out holds
\* an element without one fails with the bracketing error.
C4_Bracketing ==
  /\ ret.kind = "ok" =>
       \A i \in 1..Len(meas.tref_out) :
          Bracketed(meas.tref_out[i], TimesOf(meas.peaks_location))
  /\ ( /\ ReachedFilter
       /\ ret.line # 263
       /\ \E i \in 1..Len(meas.tref_out) :
            ~Bracketed(meas.tref_out[i], TimesOf(meas.peaks_location)) )
       => (ret.kind = "error" /\ ret.err = "not_within_two_peaks")

\* a result at a reference time strictly between two periastron times, with
\* the last apastron before the last periastron
C4_Witness ==
  /\ ret.kind = "ok"
  /\ meas.t_max < t[meas.peaks_location[Len(meas.peaks_location)]]
  /\ \E i \in 1..Len(meas.tref_out) :
       \A p \in 1..Len(meas.peaks_location) :
          t[meas.peaks_location[p]] # meas.tref_out[i]

\* C5 (as stated): when no reference time survives the filter the call fails
\* with one of the three empty-output errors, and reference times all at or
\* after t_max, t_max itself included, get the one that names t_max.
\* Refuted: line 268 compares the last reference time with t_max strictly.
C5_EmptyResultNamesBound ==
  ( /\ TrefOnly
    /\ ReachedFilter
    /\ meas.tref_out = << >>
    /\ Len(call.tref_in.val) > 0 )
    => /\ ret.kind = "error"
       /\ ret.err \in {"tref_later_than_t_max", "tref_earlier_than_t_min",
                       "tref_out_empty"}
       /\ (\A i \in 1..Len(call.tref_in.val) : call.tref_in.val[i] >= meas.t_max)
            => ret.err = "tref_later_than_t_max"

\* C6 (as stated): interp_extrema returns whenever at least 2 extrema of the
\* kind remain after trimming, and fails with the insufficient-extrema error
\* when fewer than 2 remain.
\* Refuted: with the default degree 3 the spline of lines 152-154 cannot be
\* built through 2 or 3 extrema.
C6_InterpReturnsWithTwo ==
  ret.kind # "none" =>
    LET n_maxima == Len(TrimExtrema(found["maxima"]))
        n_minima == Len(TrimExtrema(found["minima"]))
    IN /\ n_maxima < 2 =>
            (ret.err = "insufficient_extrema" /\ ret.arg = "maxima")
       /\ n_maxima >= 2 => PeaksAssigned
       /\ (n_maxima >= 2 /\ n_minima < 2) =>
            (ret.err = "insufficient_extrema" /\ ret.arg = "minima")
       /\ (n_maxima >= 2 /\ n_minima >= 2) => TroughsAssigned

\* the sample nearest the merger time and the sample whose phase is nearest
\* to the phase num_orbits_to_exclude_before_merger orbits before it, the
\* first such sample in both cases
NearestSample(s, target) ==
  CHOOSE c \in 1..Len(s) :
    \A j \in 1..Len(s) :
       \/ Abs(s[c] - target) < Abs(s[j] - target)
       \/ (Abs(s[c] - target) = Abs(s[j] - target) /\ c <= j)

CutoffIndex ==
  NearestSample(phase22,
                phase22[NearestSample(t, 0)]
                - PhasePerOrbit * extra_kwargs.num_orbits_to_exclude_before_merger.v)

TrimmedTo(extrema_idx, Keep(_)) ==
  IF extra_kwargs.num_orbits_to_exclude_before_merger.none
  THEN extrema_idx
  ELSE SelectSeq(extrema_idx, Keep)

\* C7 (as stated): trimming discards every extremum at or after the cutoff
\* index, the one exactly at the cutoff index included, and none without an
\* exclusion.
C7_TrimDiscardsAtCutoff ==
  /\ PeaksAssigned =>
       meas.peaks_location =
         TrimmedTo(found["maxima"], LAMBDA e : e < CutoffIndex)
  /\ TroughsAssigned =>
       meas.troughs_location =
         TrimmedTo(found["minima"], LAMBDA e : e < CutoffIndex)

\* C7 (amended): trimming discards exactly the extrema strictly after the
\* cutoff index, keeps the one at the cutoff index, and discards none
\* without an exclusion.
C7_TrimKeepsCutoff ==
  /\ PeaksAssigned =>
       meas.peaks_location =
         TrimmedTo(found["maxima"], LAMBDA e : e <= CutoffIndex)
  /\ TroughsAssigned =>
       meas.troughs_location =
         TrimmedTo(found["minima"], LAMBDA e : e <= CutoffIndex)

\* an exclusion whose cutoff index is a detected extremum, which is kept,
\* with a detected extremum after it, which is discarded
C7_Witness ==
  /\ TroughsAssigned
  /\ ~extra_kwargs.num_orbits_to_exclude_before_merger.none
  /\ \E i \in 1..Len(meas.peaks_location) :
       meas.peaks_location[i] = CutoffIndex
  /\ \E i \in 1..Len(found["minima"]) : found["minima"][i] > CutoffIndex
  /\ \A i \in 1..Len(meas.troughs_location) :
       meas.troughs_location[i] < CutoffIndex

\* the last call, given fref_in alone, filtered it against the averaged
\* frequency of this call, which rises from its first to its last value
FrefFiltered ==
  /\ FrefOnly
  /\ Len(call.fref_in.val) > 0
  /\ (ret.kind = "ok" \/ ret.line \in AfterFilterLines \cup {601, 605, 609})
  /\ meas.omega22_average[1] < Last(meas.omega22_average)

\* C8 (as stated): fref_out is the subsequence of fref_in within
\* [first, last) of the averaged frequency; when nothing survives, a
\* frequency below the minimum gets the error naming the lower bound, one
\* above the maximum the error naming the upper bound, and otherwise the
\* empty-output error.
\* Refuted: lines 600 and 604 look at the first and the last element only.
C8_FrefRangeNamesBound ==
  FrefFiltered =>
    LET lo == meas.omega22_average[1]
        hi == Last(meas.omega22_average)
        fref_in == call.fref_in.val
        below == \E i \in 1..Len(fref_in) : fref_in[i] < lo
        above == \E i \in 1..Len(fref_in) : fref_in[i] > hi
        kept == SelectSeq(fref_in, LAMBDA f : lo <= f /\ f < hi)
    IN IF kept # << >>
       THEN meas.fref_out = kept
       ELSE /\ ret.kind = "error"
            /\ (below /\ ~above) => ret.err = "fref_below_minimum"
            /\ (above /\ ~below) => ret.err = "fref_above_maximum"
            /\ (above /\ below) =>
                 ret.err \in {"fref_below_minimum", "fref_above_maximum"}
            /\ (~above /\ ~below) => ret.err = "fref_out_empty"

\* C9 (as stated): the averaging method defaults to average_between_extrema,
\* and an estimator configured with a name outside the three methods never
\* returns an eccentricity.
\* Refuted: the name is looked up only at line 568, on the fref_in path.
C9_UnknownMethodNeverReturns ==
  /\ get_default_extra_kwargs.omega22_averaging_method = "average_between_extrema"
  /\ ( /\ stage # "new"
       /\ args.extra_kwargs.omega22_averaging_method \notin AveragingMethods )
       => ret.kind # "ok"

\* C10: a negative num_orbits_to_exclude_before_merger makes construction
\* fail, with the configuration error of lines 76-82 unless the data-length
\* check of the zero-eccentricity waveform (line 438) or the check of the
\* option keys (lines 70-75) has failed before it; null and every
\* non-negative value pass that check; the default is 1.
C10_NegativeExclusionRejected ==
  /\ get_default_extra_kwargs.num_orbits_to_exclude_before_merger
       = [none |-> FALSE, v |-> 1]
  /\ stage # "new" =>
       LET n == args.extra_kwargs.num_orbits_to_exclude_before_merger IN
       /\ (~n.none /\ n.v < 0) =>
            /\ stage = "failed"
            /\ \/ init_error = "negative_num_orbits"
               \/ /\ init_error = "zeroecc_too_short"
                  /\ dataDict.has_zeroecc
               \/ /\ init_error = "unknown_kwarg"
                  /\ UnknownKeys(kwargs.extra_kwargs, get_default_extra_kwargs)
                       \cup UnknownKeys(kwargs.spline_kwargs,
                                        get_default_spline_kwargs) # {}
       /\ (n.none \/ n.v >= 0) =>
            /\ init_error # "negative_num_orbits"
            /\ stage = "failed" =>
                 init_error \in {"zeroecc_too_short", "unknown_kwarg"}

\* a construction with a negative exclusion and no other fault
C10_Witness ==
  /\ stage = "failed"
  /\ init_error = "negative_num_orbits"
  /\ args.extra_kwargs.num_orbits_to_exclude_before_merger.v < 0
  /\ ~dataDict.has_zeroecc

\* the recognized interpolation settings and extra settings
RecognizedSplineKeys == {"w", "bbox", "k", "ext", "check_finite"}
RecognizedExtraKeys ==
  { "num_orbits_to_exclude_before_merger", "extrema_finding_kwargs", "debug",
    "omega22_averaging_method" }

\* the value an option has after construction: the one given, else the default
OptionValue(given, key, default) ==
  IF key \in DOMAIN given THEN given[key] ELSE default

\* C11: construction with an option key outside the recognized interpolation
\* settings or extra settings fails (with the configuration error, unless
\* the data-length check of the zero-eccentricity waveform failed before);
\* after a construction that succeeds the options are exactly the
\* recognized ones, each with the value given or else its default.
C11_UnknownKeyRejected ==
  stage # "new" =>
    /\ ( \/ (DOMAIN kwargs.spline_kwargs) \ RecognizedSplineKeys # {}
         \/ (DOMAIN kwargs.extra_kwargs) \ RecognizedExtraKeys # {} )
         => /\ stage = "failed"
            /\ \/ init_error = "unknown_kwarg"
               \/ (init_error = "zeroecc_too_short" /\ dataDict.has_zeroecc)
    /\ init_error = "unknown_kwarg" =>
         \/ (DOMAIN kwargs.spline_kwargs) \ RecognizedSplineKeys # {}
         \/ (DOMAIN kwargs.extra_kwargs) \ RecognizedExtraKeys # {}
    /\ stage = "ready" =>
         /\ DOMAIN spline_kwargs = RecognizedSplineKeys
         /\ DOMAIN extra_kwargs = RecognizedExtraKeys
         /\ spline_kwargs.w = OptionValue(kwargs.spline_kwargs, "w", None)
         /\ spline_kwargs.bbox =
              OptionValue(kwargs.spline_kwargs, "bbox", << None, None >>)
         /\ spline_kwargs.k = OptionValue(kwargs.spline_kwargs, "k", 3)
         /\ spline_kwargs.ext = OptionValue(kwargs.spline_kwargs, "ext", 2)
         /\ spline_kwargs.check_finite =
              OptionValue(kwargs.spline_kwargs, "check_finite", FALSE)
         /\ extra_kwargs.num_orbits_to_exclude_before_merger =
              OptionValue(kwargs.extra_kwargs,
                          "num_orbits_to_exclude_before_merger", Some(1))
         /\ extra_kwargs.extrema_finding_kwargs =
              OptionValue(kwargs.extra_kwargs, "extrema_finding_kwargs", << >>)
         /\ extra_kwargs.debug = OptionValue(kwargs.extra_kwargs, "debug", TRUE)
         /\ extra_kwargs.omega22_averaging_method =
              OptionValue(kwargs.extra_kwargs, "omega22_averaging_method",
                          "average_between_extrema")

\* a construction rejected for an unknown extra key although the spline
\* options were fine
C11_Witness ==
  /\ stage = "failed"
  /\ init_error = "unknown_kwarg"
  /\ (DOMAIN kwargs.spline_kwargs) \subseteq RecognizedSplineKeys
  /\ "verbose" \in DOMAIN kwargs.extra_kwargs

\* a construction given one option only, the others taking their defaults
C11_WitnessDefaults ==
  /\ stage = "ready"
  /\ DOMAIN kwargs.spline_kwargs = {"k"}
  /\ DOMAIN kwargs.extra_kwargs = {}
  /\ spline_kwargs.k = 1
  /\ extra_kwargs.debug

Elements(s) == { s[i] : i \in 1..Len(s) }

\* C12: a measure_ecc call that returns gives three values: the reference
\* instants (fref_out, taken from the frequencies given, when fref_in was
\* given; tref_out, taken from the times given, when tref_in was given), the
\* eccentricity and the mean anomaly there.  All three are scalars exactly
\* when one instant survives the filter; otherwise they are arrays of the
\* same length.
C12_ReturnTriple ==
  ret.kind = "ok" =>
    /\ call.fref_in.given =>
         /\ ret.ref = meas.fref_out
         /\ Elements(ret.ref) \subseteq Elements(call.fref_in.val)
    /\ call.tref_in.given =>
         /\ ret.ref = meas.tref_out
         /\ Elements(ret.ref) \subseteq Elements(call.tref_in.val)
    /\ Len(ret.ref) = Len(meas.tref_out)
    /\ Len(ret.ecc) = Len(ret.ref)
    /\ Len(ret.mean_ano) = Len(ret.ref)
    /\ ret.scalar.ref = (Len(meas.tref_out) = 1)
    /\ ret.scalar.ecc = (Len(meas.tref_out) = 1)
    /\ ret.scalar.mean_ano = (Len(meas.tref_out) = 1)

\* reference frequencies given, several survive: arrays are returned
C12_Witness ==
  /\ ret.kind = "ok"
  /\ call.fref_in.given
  /\ Len(ret.ref) > 1
  /\ ~ret.scalar.ref

\* a reference time given alone: scalars are returned
C12_WitnessScalar ==
  /\ ret.kind = "ok"
  /\ call.tref_in.given
  /\ Len(call.tref_in.val) > 1
  /\ Len(ret.ref) = 1
  /\ ret.scalar.ref /\ ret.scalar.ecc /\ ret.scalar.mean_ano

\* the first time of a series after its time axis is shifted to put the
\* amplitude peak at zero
AlignedStart(tt, amp) == tt[1] - get_peak_via_quadratic_fit(tt, amp)

\* C13: with a zero-eccentricity counterpart supplied, construction fails
\* with the data-length error exactly when the aligned zero-eccentricity
\* series starts strictly after the aligned eccentric series; with a start
\* at or before it, and options that are in order, the estimator is built.
C13_ZeroEccLengthCheck ==
  (stage # "new" /\ dataDict.has_zeroecc) =>
    /\ (stage = "failed" /\ init_error = "zeroecc_too_short")
         <=> AlignedStart(dataDict.t_zeroecc, dataDict.h22_zeroecc.amp)
               > AlignedStart(dataDict.t, dataDict.h22.amp)
    /\ ( /\ AlignedStart(dataDict.t_zeroecc, dataDict.h22_zeroecc.amp)
              <= AlignedStart(dataDict.t, dataDict.h22.amp)
         /\ init_error \notin {"unknown_kwarg", "negative_num_orbits"} )
         => /\ stage = "ready"
            /\ t_zeroecc[1] <= t[1]

\* a counterpart that starts where the eccentric series starts is accepted
C13_Witness ==
  /\ stage = "ready"
  /\ dataDict.has_zeroecc
  /\ AlignedStart(dataDict.t_zeroecc, dataDict.h22_zeroecc.amp)
       = AlignedStart(dataDict.t, dataDict.h22.amp)

\* a counterpart that starts later is rejected
C13_WitnessRejected ==
  /\ stage = "failed"
  /\ init_error = "zeroecc_too_short"
  /\ dataDict.has_zeroecc
  /\ AlignedStart(dataDict.t_zeroecc, dataDict.h22_zeroecc.amp)
       > AlignedStart(dataDict.t, dataDict.h22.amp)

\* the last call was given fref_in alone and got as far as the averaging
\* method named m
AveragedWith(m) ==
  /\ FrefOnly
  /\ TroughsAssigned
  /\ extra_kwargs.omega22_averaging_method = m

\* the orbit average between extrema n+1, n+2 of loc is not above the one
\* between extrema n, n+1 (phase gained over time taken, compared as
\* fractions)
AverageNotRising(loc) ==
  \E n \in 1..(Len(loc) - 2) :
    (phase22[loc[n + 2]] - phase22[loc[n + 1]]) * (t[loc[n + 1]] - t[loc[n]])
      <= (phase22[loc[n + 1]] - phase22[loc[n]]) * (t[loc[n + 2]] - t[loc[n + 1]])

\* C14: the orbit-average-at-extrema strategy fails with the
\* non-monotonic-average error exactly when the orbit averages at the
\* periastrons, or those at the apastrons, are not strictly increasing
\* (two equal consecutive averages count as a violation).
C14_NonMonotonicAverageFails ==
  AveragedWith("orbital_average_at_extrema") =>
    /\ ret.err = "nonmonotonic_average"
         <=> \/ AverageNotRising(meas.peaks_location)
             \/ AverageNotRising(meas.troughs_location)
    /\ (ret.err = "nonmonotonic_average" /\ ret.line = 500)
         <=> AverageNotRising(meas.peaks_location)
    /\ ret.err = "nonmonotonic_average" => ret.kind = "error"

\* equal consecutive averages at the periastrons: the strategy fails
C14_Witness ==
  /\ AveragedWith("orbital_average_at_extrema")
  /\ ret.err = "nonmonotonic_average"
  /\ \E n \in 1..(Len(meas.peaks_location) - 2) :
       (phase22[meas.peaks_location[n + 2]] - phase22[meas.peaks_location[n + 1]])
         * (t[meas.peaks_location[n + 1]] - t[meas.peaks_location[n]])
       = (phase22[meas.peaks_location[n + 1]] - phase22[meas.peaks_location[n]])
         * (t[meas.peaks_location[n + 2]] - t[meas.peaks_location[n + 1]])

\* strictly increasing averages at both: the strategy returns its curve
C14_WitnessRising ==
  /\ AveragedWith("orbital_average_at_extrema")
  /\ Len(meas.peaks_location) > 2
  /\ Len(meas.troughs_location) > 2
  /\ ret.err # "nonmonotonic_average"
  /\ Len(meas.omega22_average) > 2

\* C15: an averaged frequency curve that is not strictly increasing only
\* draws a warning: the spline of time against the averaged frequency is
\* still built and evaluated, so that the call does not end at that spline.
C15_NonMonotonicAverageOnlyWarns ==
  (FrefOnly /\ "omega22_average_not_monotonic" \in meas.warnings)
    => ret.line # 580

\* the last call ran check_extrema_separation on the peaks and the troughs
SeparationChecked == ret.kind = "ok" \/ ret.line \in {292, 297, 298, 314, 316, 400}

\* the warnings check_extrema_separation can issue
SeparationWarningNames ==
  { "peaks_too_close", "peaks_too_far", "troughs_too_close", "troughs_too_far",
    "phase_shift_closer_to_pi" }

\* what the diagnostic has to return for the extrema at loc: the orbital
\* phase gained from each extremum to the next, and for each but the first
\* its quotient by the one before, with a 0 in front
SeparationOf(loc, diff, ratio) ==
  /\ Len(diff) = Len(loc) - 1
  /\ \A i \in 1..Len(diff) : diff[i] = phase22[loc[i + 1]] - phase22[loc[i]]
  /\ Len(ratio) = Len(diff)
  /\ ratio[1] = << 0, 1 >>
  /\ \A i \in 2..Len(ratio) : ratio[i] = << diff[i], diff[i - 1] >>

\* C16: check_extrema_separation never ends measure_ecc: whatever the
\* number of extrema, two included, it returns the orbital phase differences
\* and their ratios, of the same length with 0 as first ratio, and only warns;
\* no call ends at one of its lines.
C16_SeparationCheckOnlyWarns ==
  /\ ret.line \notin 341..376
  /\ SeparationChecked =>
       /\ Len(meas.peaks_location) >= 2
       /\ Len(meas.troughs_location) >= 2
       /\ SeparationOf(meas.peaks_location, meas.orb_phase_diff_at_peaks,
                       meas.orb_phase_diff_ratio_at_peaks)
       /\ SeparationOf(meas.troughs_location, meas.orb_phase_diff_at_troughs,
                       meas.orb_phase_diff_ratio_at_troughs)

\* a call that returns although the diagnostic warned, with two periastrons
C16_Witness ==
  /\ ret.kind = "ok"
  /\ Len(meas.peaks_location) = 2
  /\ meas.orb_phase_diff_ratio_at_peaks = << << 0, 1 >> >>
  /\ meas.warnings \cap SeparationWarningNames # {}

\* a call that returns with a periastron the diagnostic finds too far
C16_WitnessTooFar ==
  /\ ret.kind = "ok"
  /\ Len(meas.peaks_location) > 2
  /\ "peaks_too_far" \in meas.warnings

\* C17: the monotonicity diagnostic, run when more than one reference time
\* is retained, only warns: with two or three retained times, in increasing
\* order, the call does not end at the spline the diagnostic builds.
C17_MonotonicityCheckOnlyWarns ==
  ( /\ ReachedFilter
    /\ Len(meas.tref_out) \in {2, 3}
    /\ StrictlyIncreasing(meas.tref_out) )
    => ret.line # 400

\* C18: a measure_ecc call is self-contained: what it returns or raises, and
\* the warnings it issues, are those of the same call made on the estimator
\* as constructed, whatever calls were made on it before.
C18_CallsSelfContained ==
  ret.kind # "none" =>
    /\ ret = measure_ecc_from(NoMeas, call.tref_in, call.fref_in).ret
    /\ meas.warnings
         = measure_ecc_from(NoMeas, call.tref_in, call.fref_in).st.warnings

\* a call given times that returns, on an estimator that still holds the
\* frequencies an earlier call was given
C18_Witness ==
  /\ ret.kind = "ok"
  /\ TrefOnly
  /\ Len(meas.fref_out) > 0
  /\ Len(meas.omega22_average) > 0

\* the eccentricity e (in units of 1/EccScale) is within one unit of
\* (sqrt(wp) - sqrt(wa)) / (sqrt(wp) + sqrt(wa)), for wp, wa > 0: the two
\* inequalities (e - 1) / EccScale <= that <= (e + 1) / EccScale, cleared of
\* square roots and fractions
IsEccOf(e, wp, wa) ==
  /\ (EccScale + e - 1) * (EccScale + e - 1) * wa
       <= (EccScale - e + 1) * (EccScale - e + 1) * wp
  /\ (EccScale - e - 1) * (EccScale - e - 1) * wp
       <= (EccScale + e + 1) * (EccScale + e + 1) * wa

\* C19: the eccentricity returned for a reference time is
\* (sqrt(wp) - sqrt(wa)) / (sqrt(wp) + sqrt(wa)), wp and wa being the
\* periastron and the apastron interpolants there; it is 0 when wp = wa
\* and lies in [0, 1) when wp >= wa > 0.
C19_EccFormula ==
  ret.kind = "ok" =>
    /\ Len(ret.ecc) = Len(meas.tref_out)
    /\ \A i \in 1..Len(ret.ecc) :
         /\ ( meas.omega22_peak_at_tref_out[i] > 0
              /\ meas.omega22_trough_at_tref_out[i] > 0 )
              => /\ ~ret.ecc[i].nan
                 /\ IsEccOf(ret.ecc[i].v, meas.omega22_peak_at_tref_out[i],
                            meas.omega22_trough_at_tref_out[i])
         /\ ( meas.omega22_peak_at_tref_out[i] = meas.omega22_trough_at_tref_out[i]
              /\ meas.omega22_trough_at_tref_out[i] > 0 )
              => ret.ecc[i].v = 0
         /\ ( meas.omega22_peak_at_tref_out[i] >= meas.omega22_trough_at_tref_out[i]
              /\ meas.omega22_trough_at_tref_out[i] > 0 )
              => (0 <= ret.ecc[i].v /\ ret.ecc[i].v < EccScale)

\* an eccentricity strictly between 0 and 1 is returned
C19_Witness ==
  /\ ret.kind = "ok"
  /\ \E i \in 1..Len(ret.ecc) :
       /\ meas.omega22_peak_at_tref_out[i] > meas.omega22_trough_at_tref_out[i]
       /\ meas.omega22_trough_at_tref_out[i] > 0
       /\ ret.ecc[i].v > 0

\* the two interpolants agree at a reference time: eccentricity 0
C19_WitnessZero ==
  /\ ret.kind = "ok"
  /\ \E i \in 1..Len(ret.ecc) :
       /\ meas.omega22_peak_at_tref_out[i] = meas.omega22_trough_at_tref_out[i]
       /\ meas.omega22_trough_at_tref_out[i] > 0
       /\ ret.ecc[i].v = 0

RECURSIVE Pow2(_)
Pow2(n) == IF n <= 0 THEN 1 ELSE 2 * Pow2(n - 1)

\* the first time of the circular waveform generated from Momega0
GeneratedStart(Momega0) == 0 - ((4 * NRInspiral) \div Momega0)

\* C20 as stated: no operation retries internally, and no loop generates a
\* waveform again with an adjusted parameter such as a halved starting
\* frequency: a waveform is generated at most once.
C20_NoInternalRetry == loader.num_tries = 0

\* C20 as amended: the estimator's own operations make one attempt and
\* generate nothing, but the loader of the zero-eccentricity counterpart
\* generates the waveform again with the starting frequency halved, as many
\* times as the generated waveform starts after the NR waveform, and stops at
\* the first one that does not.
C20_OnlyTheLoaderRegenerates ==
  /\ ~loader.loaded => loader.num_tries = 0
  /\ loader.loaded =>
       /\ loader.Momega0 * Pow2(loader.num_tries) = loader.Momega0_estimate
       /\ GeneratedStart(loader.Momega0) <= nr_dataDict.t[1]
       /\ \A j \in 0..(loader.num_tries - 1) :
            GeneratedStart(loader.Momega0_estimate \div Pow2(j)) > nr_dataDict.t[1]
       /\ ("too_many_tries" \in loader.warnings) <=> (loader.num_tries >= 2)

\* the waveform was generated three times, the frequency halved twice
C20_Witness ==
  /\ loader.loaded
  /\ loader.num_tries = 2
  /\ loader.Momega0 * 4 = loader.Momega0_estimate
  /\ "too_many_tries" \in loader.warnings

\* the position in t_peaks of the latest periastron time at or before x
LatestPeakAtOrBefore(x, t_peaks) ==
  CHOOSE p \in 1..Len(t_peaks) :
    /\ t_peaks[p] <= x
    /\ \A q \in 1..Len(t_peaks) : t_peaks[q] <= x => t_peaks[q] <= t_peaks[p]

\* C21: for each retained reference time x the mean anomaly is
\* 2 pi (x - t_p0) / (t_p1 - t_p0), t_p0 being the latest periastron time at
\* or before x and t_p1 the periastron that follows it in the sequence; that
\* periastron exists for every element of tref_out, so that no call ends
\* inside compute_mean_ano.
C21_MeanAnomalyFormula ==
  /\ ret.line \notin 304..320
  /\ ret.kind = "ok" =>
       /\ Len(ret.mean_ano) = Len(meas.tref_out)
       /\ \A i \in 1..Len(meas.tref_out) :
            LET t_peaks == TimesOf(meas.peaks_location)
                p0 == LatestPeakAtOrBefore(meas.tref_out[i], t_peaks)
            IN /\ \E p \in 1..Len(t_peaks) : t_peaks[p] <= meas.tref_out[i]
               /\ p0 + 1 <= Len(t_peaks)
               /\ ret.mean_ano[i] =
                    << meas.tref_out[i] - t_peaks[p0], t_peaks[p0 + 1] - t_peaks[p0] >>

\* reference times in two different orbits, one of them strictly inside the
\* orbit that ends at the last of three or more periastrons
C21_Witness ==
  /\ ret.kind = "ok"
  /\ Len(meas.peaks_location) >= 3
  /\ \E i, j \in 1..Len(meas.tref_out) :
       /\ meas.tref_out[i] > t[meas.peaks_location[Len(meas.peaks_location) - 1]]
       /\ meas.tref_out[j] < t[meas.peaks_location[Len(meas.peaks_location) - 1]]
       /\ ret.mean_ano[i][1] > 0
       /\ ret.mean_ano[j][2] =
            t[meas.peaks_location[Len(meas.peaks_location) - 1]]
              - t[meas.peaks_location[Len(meas.peaks_location) - 2]]

\* the last call, given fref_in alone, got the averaged frequency from one of
\* the two strategies that sample a uniform grid
GridAveraged ==
  /\ FrefOnly
  /\ TroughsAssigned
  /\ extra_kwargs.omega22_averaging_method
       \in {"average_between_extrema", "omega22_zeroecc"}
  /\ ret.line \notin {519, 525}

\* x lies between the first and the last extremum of loc
InValidityDomain(x, loc) == t[loc[1]] <= x /\ x <= t[loc[Len(loc)]]

\* C22: neither extremum interpolant is evaluated outside the span of its own
\* extrema: no call ends at an evaluation of one (lines 297, 298, 519); the
\* reference times retained and the points of the averaging grid, which
\* starts at t_min and advances by t[1] - t[0], all lie in [t_min, t_max), and
\* [t_min, t_max) lies in the span of the periastrons and in that of the
\* apastrons.
C22_InterpolantsWithinDomain ==
  /\ ret.line \notin {297, 298, 519}
  /\ ReachedFilter =>
       /\ meas.t_min >= t[meas.peaks_location[1]]
       /\ meas.t_min >= t[meas.troughs_location[1]]
       /\ meas.t_max <= t[meas.peaks_location[Len(meas.peaks_location)]]
       /\ meas.t_max <= t[meas.troughs_location[Len(meas.troughs_location)]]
       /\ \A i \in 1..Len(meas.tref_out) :
            /\ meas.t_min <= meas.tref_out[i] /\ meas.tref_out[i] < meas.t_max
            /\ InValidityDomain(meas.tref_out[i], meas.peaks_location)
            /\ InValidityDomain(meas.tref_out[i], meas.troughs_location)
  /\ GridAveraged =>
       LET grid == meas.t_for_omega22_average IN
       /\ Len(grid) > 0 => grid[1] = Max2(t[meas.peaks_location[1]],
                                          t[meas.troughs_location[1]])
       /\ \A i \in 1..(Len(grid) - 1) : grid[i + 1] - grid[i] = t[2] - t[1]
       /\ \A i \in 1..Len(grid) :
            /\ grid[i] < Min2(t[meas.peaks_location[Len(meas.peaks_location)]],
                              t[meas.troughs_location[Len(meas.troughs_location)]])
            /\ InValidityDomain(grid[i], meas.peaks_location)
            /\ InValidityDomain(grid[i], meas.troughs_location)

\* a call given frequencies that returns, with the averaged frequency taken
\* between the extrema on a grid that starts at the first apastron, after
\* the first periastron, and stops short of the last periastron
C22_Witness ==
  /\ ret.kind = "ok"
  /\ GridAveraged
  /\ extra_kwargs.omega22_averaging_method = "average_between_extrema"
  /\ Len(meas.t_for_omega22_average) >= 4
  /\ meas.t_for_omega22_average[1] = t[meas.troughs_location[1]]
  /\ t[meas.peaks_location[1]] < meas.t_for_omega22_average[1]
  /\ Last(meas.t_for_omega22_average)
       < t[meas.peaks_location[Len(meas.peaks_location)]]
  /\ Len(meas.tref_out) > 0

\* the frequency of the zero-eccentricity waveform sampled on the same grid
C22_WitnessZeroEcc ==
  /\ GridAveraged
  /\ extra_kwargs.omega22_averaging_method = "omega22_zeroecc"
  /\ Len(meas.t_for_omega22_average) >= 4
  /\ meas.t_for_omega22_average[1] = meas.t_min

\* the gain of phase22 from each extremum of loc to the next; the orbital
\* phase gained is half of it, that is this number of quarters of pi
PhaseGains(loc) ==
  [i \in 1..(Len(loc) - 1) |-> phase22[loc[i + 1]] - phase22[loc[i]]]

\* some orbital phase difference is below pi
SomeBelowPi(g) == \E i \in 1..Len(g) : g[i] < 4

\* some orbital phase difference is closer to pi than to 2 pi: below 3 pi / 2
SomeCloserToPi(g) == \E i \in 1..Len(g) : 2 * g[i] < 12

\* some orbital phase difference is more than 1.5 times the one before it
SomeRatioAboveMax(g) == \E i \in 1..(Len(g) - 1) : 2 * g[i + 1] > 3 * g[i]

\* the warnings the claim requires for the extrema at loc
RequiredWarnings(loc, extrema_type) ==
  (IF SomeBelowPi(PhaseGains(loc)) THEN {extrema_type \o "_too_close"} ELSE {})
  \cup (IF SomeCloserToPi(PhaseGains(loc)) THEN {"phase_shift_closer_to_pi"} ELSE {})
  \cup (IF SomeRatioAboveMax(PhaseGains(loc)) THEN {extrema_type \o "_too_far"} ELSE {})

\* C23: check_extrema_separation, applied to the periastrons and to the
\* apastrons, takes the differences of phase22 / 2 between consecutive
\* extrema and warns exactly when a difference is below pi, when a difference
\* is closer to pi than to 2 pi, and when the ratio of a difference to the
\* one before it exceeds 1.5; in no other case does it warn.
C23_SeparationWarnings ==
  SeparationChecked =>
    /\ \A i \in 1..(Len(meas.peaks_location) - 1) :
         PhaseGains(meas.peaks_location)[i] > 0
    /\ \A i \in 1..(Len(meas.troughs_location) - 1) :
         PhaseGains(meas.troughs_location)[i] > 0
    /\ meas.orb_phase_diff_at_peaks = PhaseGains(meas.peaks_location)
    /\ meas.orb_phase_diff_at_troughs = PhaseGains(meas.troughs_location)
    /\ meas.warnings \cap SeparationWarningNames
         = RequiredWarnings(meas.peaks_location, "peaks")
             \cup RequiredWarnings(meas.troughs_location, "troughs")

\* periastrons with a pair less than pi apart and a pair more than 1.5 times
\* farther apart than the pair before, and regular apastrons: the three
\* warnings are issued for the periastrons and none for the apastrons
C23_Witness ==
  /\ SeparationChecked
  /\ ret.kind = "ok"
  /\ Len(meas.troughs_location) >= 3
  /\ meas.warnings \cap SeparationWarningNames
       = {"peaks_too_close", "phase_shift_closer_to_pi", "peaks_too_far"}

\* three or more periastrons and apastrons, all regularly spaced: no warning
C23_WitnessNoWarning ==
  /\ SeparationChecked
  /\ ret.kind = "ok"
  /\ Len(meas.peaks_location) >= 3
  /\ Len(meas.troughs_location) >= 3
  /\ meas.warnings \cap SeparationWarningNames = {}

\* the sample of the pair of extrema n, n+1 of loc: twice its midpoint time
\* (a whole number), and the phase gained and the time taken between the two
PairSample(loc, n) ==
  [ twice_midpoint |-> t[loc[n]] + t[loc[n + 1]],
    integ  |-> phase22[loc[n + 1]] - phase22[loc[n]],
    period |-> t[loc[n + 1]] - t[loc[n]] ]

\* the output sample at position i is the sample s
IsOutputOf(s, i) ==
  /\ 2 * meas.t_for_omega22_average[i] = s.twice_midpoint
  /\ meas.omega22_average[i] = (s.integ * OmegaScale) \div s.period
  /\ (s.integ * OmegaScale) % s.period = 0

\* the last call, given fref_in alone, got its averaged frequency from the
\* orbit averages at the extrema
OrbitAveraged ==
  /\ AveragedWith("orbital_average_at_extrema")
  /\ ret.line \notin {500, 503}

\* C24: with orbital_average_at_extrema each pair of consecutive periastrons
\* and each pair of consecutive apastrons gives one sample, its midpoint time
\* with its phase difference over its time difference; the output holds
\* (nP - 1) + (nA - 1) samples in non-decreasing order of time, each output
\* time next to the frequency of the same pair, and each pair as many times
\* in the output as among the pairs.
C24_OrbitalAveragePairing ==
  OrbitAveraged =>
    LET nP == Len(meas.peaks_location)
        nA == Len(meas.troughs_location)
        n_out == Len(meas.t_for_omega22_average)
        samples == { PairSample(meas.peaks_location, n) : n \in 1..(nP - 1) }
                     \cup { PairSample(meas.troughs_location, n) : n \in 1..(nA - 1) }
    IN /\ n_out = (nP - 1) + (nA - 1)
       /\ Len(meas.omega22_average) = n_out
       /\ \A i \in 1..(n_out - 1) :
            meas.t_for_omega22_average[i] <= meas.t_for_omega22_average[i + 1]
       /\ \A i \in 1..n_out : \E s \in samples : IsOutputOf(s, i)
       /\ \A s \in samples :
            Cardinality({ i \in 1..n_out : IsOutputOf(s, i) })
              = Cardinality({ n \in 1..(nP - 1) :
                                PairSample(meas.peaks_location, n) = s })
                + Cardinality({ n \in 1..(nA - 1) :
                                  PairSample(meas.troughs_location, n) = s })

\* three periastrons and three apastrons: four samples, those of the
\* periastron pairs and of the apastron pairs alternating in time
C24_Witness ==
  /\ OrbitAveraged
  /\ Len(meas.peaks_location) = 3
  /\ Len(meas.troughs_location) = 3
  /\ Len(meas.t_for_omega22_average) = 4
  /\ IsOutputOf(PairSample(meas.peaks_location, 1), 1)
  /\ IsOutputOf(PairSample(meas.troughs_location, 1), 2)
  /\ IsOutputOf(PairSample(meas.peaks_location, 2), 3)
  /\ IsOutputOf(PairSample(meas.troughs_location, 2), 4)

\* the records a constructor is given
InputRecords ==
  { DataDictOf(p, c) : p \in PhaseProfiles, c \in ZeroEccChoices }
    \cup MultiModeRecords

\* the frame fields are those computed from the record dd
FrameOf(dd) ==
  /\ t' = AlignedTime(dd)
  /\ phase22' = dd.h22.phase
  /\ omega22' = Gradient(dd.h22.phase, AlignedTime(dd))
  /\ dd.has_zeroecc =>
       /\ t_zeroecc' = AlignedZeroEccTime(dd)
       /\ omega22_zeroecc' = Gradient(dd.h22_zeroecc.phase, AlignedZeroEccTime(dd))

\* C25: construction leaves the input record as it was given (the frame's
\* shifted time axes are arrays of their own), and measure_ecc changes
\* neither the record nor the frame fields t, phase22, omega22 and their
\* zero-eccentricity counterparts (the amplitude is read from the record):
\* a measure_ecc call changes derived result fields only.
C25_FrameEffect ==
  [][ /\ stage \in {"new", "loaded"} /\ stage' \in {"ready", "failed"}
         => /\ \/ dataDict' \in InputRecords
               \/ (stage = "loaded" /\ dataDict' = LoadedDataDict(loader))
            /\ stage' = "ready" => FrameOf(dataDict')
      /\ stage = "ready"
         => /\ UNCHANGED << dataDict, t, phase22, omega22, t_zeroecc,
                            omega22_zeroecc, found, spline_kwargs, extra_kwargs,
                            stage, loader >>
            /\ call' # call \/ meas' # meas \/ ret' # ret
    ]_vars

\* a call has returned on a frame whose time axes are shifted with respect
\* to those of the record, which still start where they were given to start
C25_Witness ==
  /\ stage = "ready"
  /\ ret.kind = "ok"
  /\ Len(meas.tref_out) > 0
  /\ dataDict.has_zeroecc
  /\ dataDict.t[1] = 0
  /\ t[1] < 0
  /\ dataDict.t_zeroecc[1] = 0
  /\ t_zeroecc[1] < 0

RECURSIVE SumOfSquares(_, _)
SumOfSquares(amps, i) ==
  IF amps = << >> THEN 0
  ELSE amps[1][i] * amps[1][i] + SumOfSquares(Tail(amps), i)

\* sqrt(sum over the modes of |h_lm|^2), in units of 1/SqrtScale
CombinedAmplitude(amps) ==
  [i \in 1..Len(amps[1]) |-> Sqrt(SumOfSquares(amps, i))]

\* the time axis tt shifted to put at 0 the quadratic-fit peak of the
\* combined amplitude of the modes amps
AlignedOnAllModes(tt, amps) ==
  Shift(tt, get_peak_via_quadratic_fit(tt, CombinedAmplitude(amps)))

\* C26 (as stated): the time axis of the frame has its 0 at the
\* quadratic-fit peak of the amplitude combined over every mode supplied,
\* sqrt(sum |h_lm|^2), not of the (2,2) mode alone, and so has the time axis
\* of the zero-eccentricity frame, aligned on its own modes.
\* Refuted: lines 55-62 and 429-432 take the peak of |h22| alone.
C26_MergerFromAllModes ==
  stage = "ready" =>
    /\ t = AlignedOnAllModes(dataDict.t,
                             << dataDict.h22.amp >> \o dataDict.other_modes)
    /\ dataDict.has_zeroecc =>
         t_zeroecc = AlignedOnAllModes(dataDict.t_zeroecc,
                                       << dataDict.h22_zeroecc.amp >>
                                         \o dataDict.other_modes_zeroecc)

\* C27: with fref_in given, a call that returns gives one eccentricity and
\* one mean anomaly for each element of fref_out; when a retained frequency
\* maps to a time outside [t_min, t_max), so that tref_out is shorter than
\* fref_out, the call fails with the length error instead of returning.
C27_OnePerFrequency ==
  (FrefOnly /\ ReachedFilter) =>
    /\ Len(meas.fref_out) # Len(meas.tref_out)
         => (ret.kind = "error" /\ ret.err = "length_mismatch" /\ ret.line = 263)
    /\ ret.err = "length_mismatch"
         => /\ Len(meas.fref_out) # Len(meas.tref_out)
            /\ \E i \in 1..Len(ret.tref_in) :
                 ~(meas.t_min <= ret.tref_in[i] /\ ret.tref_in[i] < meas.t_max)
    /\ ret.kind = "ok"
         => /\ ret.ref = meas.fref_out
            /\ Len(ret.ecc) = Len(meas.fref_out)
            /\ Len(ret.mean_ano) = Len(meas.fref_out)
            /\ ret.tref_in = meas.tref_out

\* two frequencies are retained, the first of which maps to a time before
\* t_min: the call fails with the length error
C27_Witness ==
  /\ FrefOnly
  /\ ret.kind = "error"
  /\ ret.err = "length_mismatch"
  /\ Len(meas.fref_out) = 2
  /\ Len(meas.tref_out) = 1
  /\ ret.tref_in[1] < meas.t_min

\* several frequencies are retained and all map into [t_min, t_max)
C27_WitnessReturned ==
  /\ FrefOnly
  /\ ret.kind = "ok"
  /\ Len(meas.fref_out) > 1
  /\ Len(ret.ecc) = Len(meas.fref_out)

\* C28: the failure "Reference time must be within two peaks" of line 292
\* never happens: t_min is not before the first periastron and t_max not
\* after the last one, so that every element of a tref_out that passed the
\* filter is at or after the first periastron and before the last one.
C28_BracketingFailureUnreachable ==
  /\ ret.err # "not_within_two_peaks"
  /\ ret.line # 292
  /\ ReachedFilter =>
       /\ meas.t_min >= t[meas.peaks_location[1]]
       /\ meas.t_max <= t[meas.peaks_location[Len(meas.peaks_location)]]
       /\ \A i \in 1..Len(meas.tref_out) :
            /\ t[meas.peaks_location[1]] <= meas.tref_out[i]
            /\ meas.tref_out[i] < t[meas.peaks_location[Len(meas.peaks_location)]]

\* a call given the time of the first periastron, which is t_min and is
\* kept, and a time at or after the last periastron, which is t_max and is
\* not: it returns
C28_Witness ==
  /\ ret.kind = "ok"
  /\ meas.t_min = t[meas.peaks_location[1]]
  /\ meas.t_max = t[meas.peaks_location[Len(meas.peaks_location)]]
  /\ \E i \in 1..Len(meas.tref_out) : meas.tref_out[i] = meas.t_min
  /\ \E i \in 1..Len(ret.tref_in) : ret.tref_in[i] >= meas.t_max

\* C29 (as stated): with fref_in given and the averaged frequency sampled
\* on the uniform grid, extrema that give t_min >= t_max, and so an empty
\* grid, make the call fail with one of the errors measure_ecc raises itself,
\* not on the first or last element of an empty averaged frequency.
\* Refuted: get_fref_out reads omega22_average[0] of the empty array.
C29_EmptyGridFailsCleanly ==
  ( /\ FrefOnly
    /\ TroughsAssigned
    /\ extra_kwargs.omega22_averaging_method
         \in {"average_between_extrema", "omega22_zeroecc"}
    /\ extra_kwargs.omega22_averaging_method = "omega22_zeroecc"
         => dataDict.has_zeroecc
    /\ meas.t_min >= meas.t_max )
    => /\ ret.kind = "error"
       /\ ret.line \notin 594..612

\* C30 (as stated): what get_zeroecc_dataDict_for_lvcnr returns starts at or
\* before the first time of the NR waveform, wherever the sample nearest to
\* that time lies, fewer than 10 samples from the start included, and its
\* time array is as long as each of its mode arrays.
\* Refuted: the start index, nearest - 10, goes negative and the slice keeps
\* the end of the arrays.
C30_TruncationKeepsStart ==
  loader.loaded =>
    /\ Len(loader.t_zeroecc) > 0
    /\ loader.t_zeroecc[1] <= nr_dataDict.t[1]
    /\ Len(loader.hlm_zeroecc.amp) = Len(loader.t_zeroecc)
    /\ Len(loader.hlm_zeroecc.phase) = Len(loader.t_zeroecc)

====
